---- MODULE Spec2Model ----
(***************************************************************************)
(* Order fulfillment pipeline of the marketplace backend: order lifecycle  *)
(* (createOrder / approveOrder / rejectOrder), the allocation engine       *)
(* (createDeliveryAssignments / updateAssignment / deleteAssignment) and   *)
(* delivery confirmation (confirmDelivery), as implemented in              *)
(* src/src/services/allocation.service.ts and the order service.           *)
(*                                                                         *)
(* Every service function is an operator from the database state and the  *)
(* call's inputs to a record [code, orders, assignments, ret]: code is     *)
(* "OK" or the `code` of the error thrown by createError, orders and       *)
(* assignments are the tables after the call.  An action is the HTTP       *)
(* handler: the zod schema of the route, then the service function.  A     *)
(* call that throws writes nothing: it leaves the state as it is and is    *)
(* not a step of its own.                                                  *)
(***************************************************************************)
EXTENDS Integers, Sequences, FiniteSets, TLC

\* ---------------------------------------------------------------- bounds
MaxOrders == 1
MaxAssignments == 3
MaxQuantity == 2
MaxRows == 2
MaxHistory == 2
MaxFaults == 1
MaxNow == 14
MaxDelay == 4
MaxPayments == 2
MaxTokens == 2
MaxHour == 3
MaxAddresses == 4

\* ------------------------------------------------------- nullable values
NONE == <<>>
Some(x) == <<x>>
Val(o) == o[1]

\* ----------------------------------------------------------------- inputs
FarmerIds == {"f1", "f2", "f3"}
UnknownFarmer == "f0"
FarmerIdInputs == FarmerIds \cup {UnknownFarmer}
BuyerIds == {"b1", "b2"}
\* the requests served at the same time
Processes == {"p1", "p2"}
AdminIds == {"admin1"}
AddressIds == {"addr1", "addr2"}
ReasonInputs == {"", " ", "out of stock"}
AdminNotesInputs == {NONE, Some(""), Some("call first")}
BuyerStatusInputs == {"ACTIVE", "SUSPENDED"}
QuantityInputs == (0 - 1) .. (MaxQuantity + 1)
OrderIds == 1 .. (MaxOrders + 1)
AssignmentIds == 1 .. MaxAssignments
OrderIdInputs == 1 .. (MaxOrders + 1)
AssignmentIdInputs == 1 .. (MaxAssignments + 1)
DeliveryDateInputs == {0, 1}
AllocationAssignmentInputs == [farmerId : FarmerIdInputs, assignedQuantity : 1 .. MaxQuantity]
RECURSIVE SeqsUpTo(_, _)
SeqsUpTo(S, n) ==
    IF n = 0 THEN {<<>>}
    ELSE LET shorter == SeqsUpTo(S, n - 1)
         IN shorter \cup {Append(s, x) : s \in {t \in shorter : Len(t) = n - 1}, x \in S}
CreateAllocationInputs == SeqsUpTo(AllocationAssignmentInputs, MaxRows)
\* every list a caller of the service function can pass, schema-valid or not
ServiceAllocationInputs ==
    SeqsUpTo([farmerId : FarmerIdInputs, assignedQuantity : QuantityInputs], MaxRows)
\* the assignment lists of the request bodies sent to POST /api/admin/allocations
RequestAllocationInputs ==
    SeqsUpTo([farmerId : FarmerIdInputs, assignedQuantity : 0 .. MaxQuantity], MaxRows)
ProductTypeInputs == {"eggs", " eggs", "milk"}
QuantityAvailableInputs == {0, 1}
\* readyDate of a submission, as a delay from the instant of the request
ReadyDelayInputs == {0, 2}
QuantityDeliveredInputs == {NONE} \cup {Some(q) : q \in {0 - 1, 0, 1, MaxQuantity + 1}}
QualityResultInputs == {NONE, Some("PASS"), Some("FAIL")}
\* the inputs of the requests that feed the scoring of one farmer
ScoringFarmerIds == {"f1"}
ScoringOrderQuantityInputs == {0, 1}
ScoringAllocationInputs == {<<[farmerId |-> "f1", assignedQuantity |-> 1]>>}
ScoringQuantityInputs == {Some(1)}
ScoringQualityInputs == {Some("PASS"), Some("PARTIAL")}
ScoringProductInputs == {"eggs"}
PlainQuantityInputs == {NONE, Some(1)}
PlainQualityInputs == {NONE, Some("PASS")}

AmountPaidInputs == {0, 50, 100}
PaymentAssignmentInputs == {NONE, Some(1)}
UserIds == {"u1", "u2"}
TokenIds == 1 .. MaxTokens
EmailOrPhoneInputs == {"u1@mail", "0702", "nobody@mail"}
NewPasswordInputs == {"secret1", "secret2"}
NewBuyerIds == {"b3"}
NewAddressIds == {"addr3", "addr4", "addr5", "addr6", "addr7", "addr8"}
IsDefaultInputs == {NONE, Some(TRUE), Some(FALSE)}
DeliveryAddressesInputs ==
    {<<x>> : x \in IsDefaultInputs} \cup {<<x, y>> : x, y \in IsDefaultInputs}

VARIABLES
    orders,            \* Order table: id -> row
    assignments,       \* DeliveryAssignment table: id -> row
    farmerStatus,      \* Farmer.user.status per farmer
    buyerStatus,       \* Buyer.user.status per buyer
    addressOwner,      \* DeliveryAddress.buyerId per address
    nextOrderId,       \* next unused Order id
    nextAssignmentId,  \* next unused DeliveryAssignment id
    now,               \* the clock read by new Date()
    batches,           \* history: successful createDeliveryAssignments calls per order
    decisions,         \* history: successful approveOrder / rejectOrder calls per order
    performance,       \* FarmerPerformance table: farmer -> row or NONE
    breakdown,         \* FarmerPerformanceBreakdown table: farmer -> row or NONE
    history,           \* FarmerPerformanceHistory table, in order of creation
    availability,      \* WeeklyAvailability table
    faults,            \* history: database statements that have thrown inside confirmDelivery
    requests,          \* createDeliveryAssignments requests between their reads and their write
    payments,          \* Payment table, in order of creation
    isDefault,         \* DeliveryAddress.isDefault per address
    resetTokens,       \* the in-memory Map resetTokens: token -> entry
    passwordHash,      \* User.passwordHash per user
    hour,              \* the clock read by new Date() in the password service, in hours
    nextToken,         \* the next value drawn by crypto.randomBytes
    resets,            \* history: resetPassword calls that returned normally, per token
    last               \* the last call that changed the state

vars == <<orders, assignments, farmerStatus, buyerStatus, addressOwner,
          nextOrderId, nextAssignmentId, now, batches, decisions, requests,
          performance, breakdown, history, availability, faults, payments,
          isDefault, resetTokens, passwordHash, hour, nextToken, resets, last>>

\* ---------------------------------------------------------------- helpers
RECURSIVE SumSeq(_)
SumSeq(s) == IF s = <<>> THEN 0 ELSE Head(s) + SumSeq(Tail(s))

RECURSIVE SumOver(_, _)
SumOver(f, S) ==
    IF S = {} THEN 0
    ELSE LET x == CHOOSE y \in S : TRUE IN f[x] + SumOver(f, S \ {x})

Range(s) == {s[i] : i \in DOMAIN s}

\* rows of the DeliveryAssignment table `tbl` that belong to order o
AssignmentsOf(tbl, o) == {a \in DOMAIN tbl : tbl[a].orderId = o}

\* sum of assignedQuantity over the rows `ids` of table `tbl`
TotalAssigned(tbl, ids) == SumOver([a \in ids |-> tbl[a].assignedQuantity], ids)

\* the current database, and the result of a call that threw createError(.., code)
Fail(code) == [code |-> code, orders |-> orders, assignments |-> assignments, ret |-> NONE]

\* ------------------------------------------------------------ order service
\* createOrder that does not look at the status of the buyer's account
createOrder_NoActiveCheck(buyerId, quantity, deliveryDate, deliveryAddressId) ==
    IF buyerId \notin DOMAIN buyerStatus THEN Fail("BUYER_NOT_FOUND")
    ELSE IF ~(deliveryAddressId \in DOMAIN addressOwner
              /\ addressOwner[deliveryAddressId] = buyerId) THEN Fail("ADDRESS_NOT_FOUND")
    ELSE IF quantity <= 0 THEN Fail("INVALID_QUANTITY")
    ELSE IF deliveryDate <= now THEN Fail("INVALID_DELIVERY_DATE")
    ELSE LET order == [buyerId |-> buyerId,
                       quantity |-> quantity,
                       deliveryDate |-> deliveryDate,
                       deliveryAddressId |-> deliveryAddressId,
                       status |-> "PENDING",
                       approvedAt |-> NONE,
                       approvedBy |-> NONE,
                       rejectionReason |-> NONE,
                       notes |-> NONE]
         IN [code |-> "OK",
             orders |-> [o \in DOMAIN orders \cup {nextOrderId} |->
                            IF o = nextOrderId THEN order ELSE orders[o]],
             assignments |-> assignments,
             ret |-> Some(nextOrderId)]

\* createOrder(buyerId, data)
createOrder(buyerId, quantity, deliveryDate, deliveryAddressId) ==
    IF buyerId \notin DOMAIN buyerStatus THEN Fail("BUYER_NOT_FOUND")
    ELSE IF buyerStatus[buyerId] # "ACTIVE" THEN Fail("BUYER_NOT_ACTIVE")
    ELSE IF ~(deliveryAddressId \in DOMAIN addressOwner
              /\ addressOwner[deliveryAddressId] = buyerId) THEN Fail("ADDRESS_NOT_FOUND")
    ELSE IF quantity <= 0 THEN Fail("INVALID_QUANTITY")
    ELSE IF deliveryDate <= now THEN Fail("INVALID_DELIVERY_DATE")
    ELSE LET order == [buyerId |-> buyerId,
                       quantity |-> quantity,
                       deliveryDate |-> deliveryDate,
                       deliveryAddressId |-> deliveryAddressId,
                       status |-> "PENDING",
                       approvedAt |-> NONE,
                       approvedBy |-> NONE,
                       rejectionReason |-> NONE,
                       notes |-> NONE]
         IN [code |-> "OK",
             orders |-> [o \in DOMAIN orders \cup {nextOrderId} |->
                            IF o = nextOrderId THEN order ELSE orders[o]],
             assignments |-> assignments,
             ret |-> Some(nextOrderId)]

\* `${order.notes || ''}\n[Admin]: ${adminNotes}`.trim()
AdminNote(notes, adminNotes) ==
    IF notes = NONE \/ Val(notes) = "" THEN "[Admin]: " \o Val(adminNotes)
    ELSE Val(notes) \o "\n[Admin]: " \o Val(adminNotes)

\* approveOrder that does not look at the order's status
approveOrder_NoStatusCheck(orderId, adminId, adminNotes) ==
    IF orderId \notin DOMAIN orders THEN Fail("ORDER_NOT_FOUND")
    ELSE IF buyerStatus[orders[orderId].buyerId] = "SUSPENDED" THEN Fail("BUYER_SUSPENDED")
    ELSE [code |-> "OK",
          orders |-> [orders EXCEPT
              ![orderId].status = "ALLOCATION",
              ![orderId].approvedAt = Some(now),
              ![orderId].approvedBy = Some(adminId),
              ![orderId].notes =
                  IF adminNotes # NONE /\ Val(adminNotes) # ""
                  THEN Some(AdminNote(orders[orderId].notes, adminNotes))
                  ELSE orders[orderId].notes],
          assignments |-> assignments,
          ret |-> Some(orderId)]

\* approveOrder that does not look at the buyer's account status
approveOrder_NoSuspendedCheck(orderId, adminId, adminNotes) ==
    IF orderId \notin DOMAIN orders THEN Fail("ORDER_NOT_FOUND")
    ELSE IF orders[orderId].status # "PENDING" THEN Fail("INVALID_ORDER_STATUS")
    ELSE [code |-> "OK",
          orders |-> [orders EXCEPT
              ![orderId].status = "ALLOCATION",
              ![orderId].approvedAt = Some(now),
              ![orderId].approvedBy = Some(adminId),
              ![orderId].notes =
                  IF adminNotes # NONE /\ Val(adminNotes) # ""
                  THEN Some(AdminNote(orders[orderId].notes, adminNotes))
                  ELSE orders[orderId].notes],
          assignments |-> assignments,
          ret |-> Some(orderId)]

\* approveOrder(orderId, adminId, adminNotes)
approveOrder(orderId, adminId, adminNotes) ==
    IF orderId \notin DOMAIN orders THEN Fail("ORDER_NOT_FOUND")
    ELSE IF orders[orderId].status # "PENDING" THEN Fail("INVALID_ORDER_STATUS")
    ELSE IF buyerStatus[orders[orderId].buyerId] = "SUSPENDED" THEN Fail("BUYER_SUSPENDED")
    ELSE [code |-> "OK",
          orders |-> [orders EXCEPT
              ![orderId].status = "ALLOCATION",
              ![orderId].approvedAt = Some(now),
              ![orderId].approvedBy = Some(adminId),
              ![orderId].notes =
                  IF adminNotes # NONE /\ Val(adminNotes) # ""
                  THEN Some(AdminNote(orders[orderId].notes, adminNotes))
                  ELSE orders[orderId].notes],
          assignments |-> assignments,
          ret |-> Some(orderId)]

\* the Order table after prisma.order.update of an approveOrder request whose read
\* passed the checks: the update names the order by id alone; the notes are built from
\* the notes the request read
approveWrite(request) ==
    [orders EXCEPT
        ![request.orderId].status = "ALLOCATION",
        ![request.orderId].approvedAt = Some(now),
        ![request.orderId].approvedBy = Some(request.adminId),
        ![request.orderId].notes =
            IF request.adminNotes # NONE /\ Val(request.adminNotes) # ""
            THEN Some(AdminNote(request.notes, request.adminNotes))
            ELSE request.notes]

\* String.prototype.trim on the strings of ReasonInputs and ProductTypeInputs
Trim(str) ==
    CASE str = " " -> ""
      [] str = " eggs" -> "eggs"
      [] OTHER -> str

\* rejectOrder that does not look at the order's status
rejectOrder_NoStatusCheck(orderId, adminId, rejectionReason) ==
    IF orderId \notin DOMAIN orders THEN Fail("ORDER_NOT_FOUND")
    ELSE [code |-> "OK",
          orders |-> [orders EXCEPT ![orderId].status = "REJECTED",
                                    ![orderId].approvedBy = Some(adminId),
                                    ![orderId].rejectionReason = Some(Trim(rejectionReason))],
          assignments |-> assignments,
          ret |-> Some(orderId)]

\* rejectOrder(orderId, adminId, rejectionReason)
rejectOrder(orderId, adminId, rejectionReason) ==
    IF orderId \notin DOMAIN orders THEN Fail("ORDER_NOT_FOUND")
    ELSE IF orders[orderId].status # "PENDING" THEN Fail("INVALID_ORDER_STATUS")
    ELSE [code |-> "OK",
          orders |-> [orders EXCEPT ![orderId].status = "REJECTED",
                                    ![orderId].approvedBy = Some(adminId),
                                    ![orderId].rejectionReason = Some(Trim(rejectionReason))],
          assignments |-> assignments,
          ret |-> Some(orderId)]

\* the Order table after prisma.order.update of a rejectOrder request whose read passed
\* the checks
rejectWrite(request) ==
    [orders EXCEPT
        ![request.orderId].status = "REJECTED",
        ![request.orderId].approvedBy = Some(request.adminId),
        ![request.orderId].rejectionReason = Some(Trim(request.rejectionReason))]

\* ------------------------------------------------------ performance service
DEFAULT_TIER_THRESHOLDS == [PROBATIONARY |-> 0, STANDARD |-> 50, PREFERRED |-> 85]
\* the weights, in hundredths
DEFAULT_SCORE_WEIGHTS ==
    [onTimeDelivery |-> 30, quantityAccuracy |-> 30, quality |-> 25,
     availabilitySubmission |-> 15]
DEFAULT_BASE_SCORE == 50
\* 1000 * 60 * 60 * 24 ms, in ticks of the clock `now` (a tick is half a day)
DayLength == 2

\* Math.round(num / den) for den > 0: the nearest integer, halves rounded up
Round(num, den) == (2 * num + den) \div (2 * den)

Min(a, b) == IF a <= b THEN a ELSE b
Max(a, b) == IF a >= b THEN a ELSE b

RECURSIVE ProdOver(_, _)
ProdOver(f, S) ==
    IF S = {} THEN 1
    ELSE LET x == CHOOSE y \in S : TRUE IN f[x] * ProdOver(f, S \ {x})

\* the findMany without the filter on status and confirmedAt
confirmedDeliveries_AnyStatus(tbl, farmerId) ==
    {a \in DOMAIN tbl : tbl[a].farmerId = farmerId}

\* deliveryAssignment.findMany({ farmerId, status in [DELIVERED, FAILED],
\* confirmedAt not null }) on table tbl
confirmedDeliveries(tbl, farmerId) ==
    {a \in DOMAIN tbl : /\ tbl[a].farmerId = farmerId
                         /\ tbl[a].status \in {"DELIVERED", "FAILED"}
                         /\ tbl[a].confirmedAt # NONE}

\* weeklyAvailability.findMany({ farmerId }, orderBy weekStartDate desc, take 8)
availabilityHistory(farmerId) ==
    LET rows == {r \in availability : r.farmerId = farmerId}
    IN {r \in rows : Cardinality({x \in rows : x.weekStartDate > r.weekStartDate}) < 8}

calculateOnTimeDeliveryScore(tbl, deliveries) ==
    IF deliveries = {} THEN 0
    ELSE LET onTimeDeliveries ==
                 {a \in deliveries :
                     /\ tbl[a].status = "DELIVERED"
                     /\ tbl[a].confirmedAt # NONE
                     /\ (Val(tbl[a].confirmedAt) - tbl[a].deliveryDate) \div DayLength <= 1}
         IN Round(Cardinality(onTimeDeliveries) * 100, Cardinality(deliveries))

\* the accuracies min(100, delivered / assigned * 100) are summed over the common
\* denominator D, the product of the assigned quantities
calculateQuantityAccuracyScore(tbl, deliveries) ==
    LET deliveredAssignments ==
            {a \in deliveries : tbl[a].status = "DELIVERED" /\ tbl[a].quantityDelivered # NONE}
        D == ProdOver([a \in deliveredAssignments |-> tbl[a].assignedQuantity],
                      deliveredAssignments)
        accuracy == [a \in deliveredAssignments |->
                        Min(100 * D,
                            (Val(tbl[a].quantityDelivered) * 100 * D)
                                \div tbl[a].assignedQuantity)]
    IN IF deliveries = {} \/ deliveredAssignments = {} THEN 0
       ELSE Round(SumOver(accuracy, deliveredAssignments), D * Cardinality(deliveredAssignments))

calculateQualityScore(tbl, deliveries) ==
    LET deliveredAssignments ==
            {a \in deliveries : tbl[a].status = "DELIVERED" /\ tbl[a].qualityResult # NONE}
        points == [a \in deliveredAssignments |->
                      CASE Val(tbl[a].qualityResult) = "PASS" -> 100
                        [] Val(tbl[a].qualityResult) = "PARTIAL" -> 50
                        [] OTHER -> 0]
    IN IF deliveries = {} \/ deliveredAssignments = {} THEN 0
       ELSE Round(SumOver(points, deliveredAssignments), Cardinality(deliveredAssignments))

calculateAvailabilitySubmissionScore(rows) ==
    IF rows = {} THEN 0
    ELSE Round(Cardinality({r \in rows : ~r.isLate}) * 100, Cardinality(rows))

\* determineTier with exclusive lower bounds
determineTier_Exclusive(score) ==
    IF score > DEFAULT_TIER_THRESHOLDS.PREFERRED THEN "PREFERRED"
    ELSE IF score > DEFAULT_TIER_THRESHOLDS.STANDARD THEN "STANDARD"
    ELSE "PROBATIONARY"

determineTier(score) ==
    IF score >= DEFAULT_TIER_THRESHOLDS.PREFERRED THEN "PREFERRED"
    ELSE IF score >= DEFAULT_TIER_THRESHOLDS.STANDARD THEN "STANDARD"
    ELSE "PROBATIONARY"

\* the FarmerPerformance, FarmerPerformanceBreakdown and FarmerPerformanceHistory tables
Store == [performance |-> performance, breakdown |-> breakdown, history |-> history]

\* the weighted total without the base score
weightedScore_NoBase(breakdown_) ==
    LET totalScore ==
            Round(breakdown_.onTimeDeliveryScore * DEFAULT_SCORE_WEIGHTS.onTimeDelivery
                  + breakdown_.quantityAccuracyScore * DEFAULT_SCORE_WEIGHTS.quantityAccuracy
                  + breakdown_.qualityScore * DEFAULT_SCORE_WEIGHTS.quality
                  + breakdown_.availabilitySubmissionScore
                        * DEFAULT_SCORE_WEIGHTS.availabilitySubmission,
                  100)
        finalScore == Max(0, Min(100, totalScore))
    IN [score |-> finalScore, tier |-> determineTier(finalScore), breakdown |-> breakdown_]

\* the weighted total without the clamp to 0..100
weightedScore_NoClamp(breakdown_) ==
    LET totalScore ==
            Round(DEFAULT_BASE_SCORE * 100
                  + breakdown_.onTimeDeliveryScore * DEFAULT_SCORE_WEIGHTS.onTimeDelivery
                  + breakdown_.quantityAccuracyScore * DEFAULT_SCORE_WEIGHTS.quantityAccuracy
                  + breakdown_.qualityScore * DEFAULT_SCORE_WEIGHTS.quality
                  + breakdown_.availabilitySubmissionScore
                        * DEFAULT_SCORE_WEIGHTS.availabilitySubmission,
                  100)
        finalScore == totalScore
    IN [score |-> finalScore, tier |-> determineTier(finalScore), breakdown |-> breakdown_]

\* the weighted total of the component scores breakdown_, clamped, and its tier
weightedScore(breakdown_) ==
    LET totalScore ==
            Round(DEFAULT_BASE_SCORE * 100
                  + breakdown_.onTimeDeliveryScore * DEFAULT_SCORE_WEIGHTS.onTimeDelivery
                  + breakdown_.quantityAccuracyScore * DEFAULT_SCORE_WEIGHTS.quantityAccuracy
                  + breakdown_.qualityScore * DEFAULT_SCORE_WEIGHTS.quality
                  + breakdown_.availabilitySubmissionScore
                        * DEFAULT_SCORE_WEIGHTS.availabilitySubmission,
                  100)
        finalScore == Max(0, Min(100, totalScore))
    IN [score |-> finalScore, tier |-> determineTier(finalScore), breakdown |-> breakdown_]

\* the component scores over the confirmed deliveries
componentScores(tbl, farmerId, deliveries) ==
    [onTimeDeliveryScore |-> calculateOnTimeDeliveryScore(tbl, deliveries),
     quantityAccuracyScore |-> calculateQuantityAccuracyScore(tbl, deliveries),
     qualityScore |-> calculateQualityScore(tbl, deliveries),
     availabilitySubmissionScore |->
         calculateAvailabilitySubmissionScore(availabilityHistory(farmerId))]

\* calculatePerformanceScore(farmerId), reading the DeliveryAssignment table tbl
calculatePerformanceScore(tbl, farmerId) ==
    weightedScore(componentScores(tbl, farmerId, confirmedDeliveries(tbl, farmerId)))

\* savePerformance that creates a history row at every call
savePerformance_AlwaysAppends(store, performanceData, farmerId, reason, deliveryAssignmentId, createdBy, failAt) ==
    LET currentPerformance == store.performance[farmerId]
        previousScore ==
            IF currentPerformance # NONE THEN Val(currentPerformance).score
            ELSE DEFAULT_BASE_SCORE
        previousTier ==
            IF currentPerformance # NONE THEN Val(currentPerformance).tier
            ELSE "PROBATIONARY"
        changed == previousScore # performanceData.score \/ previousTier # performanceData.tier
        row == [farmerId |-> farmerId,
                previousScore |-> previousScore,
                newScore |-> performanceData.score,
                previousTier |-> previousTier,
                newTier |-> performanceData.tier,
                reason |-> reason,
                deliveryAssignmentId |-> deliveryAssignmentId,
                createdBy |-> createdBy]
        upserted == [store.performance EXCEPT ![farmerId] =
                        Some([score |-> performanceData.score, tier |-> performanceData.tier])]
        upsertedBreakdown ==
            [store.breakdown EXCEPT ![farmerId] = Some(performanceData.breakdown)]
    IN IF failAt = 1
       THEN [code |-> "ERROR", performance |-> store.performance,
             breakdown |-> store.breakdown, history |-> store.history]
       ELSE IF failAt = 2
       THEN [code |-> "ERROR", performance |-> upserted, breakdown |-> store.breakdown,
             history |-> store.history]
       ELSE IF failAt = 3 /\ changed
       THEN [code |-> "ERROR", performance |-> upserted, breakdown |-> upsertedBreakdown,
             history |-> store.history]
       ELSE [code |-> "OK", performance |-> upserted, breakdown |-> upsertedBreakdown,
             history |-> Append(store.history, row)]

\* savePerformance that compares with the defaults, never with the stored row
savePerformance_AgainstDefaults(store, performanceData, farmerId, reason, deliveryAssignmentId, createdBy, failAt) ==
    LET currentPerformance == store.performance[farmerId]
        previousScore ==
            DEFAULT_BASE_SCORE
        previousTier ==
            "PROBATIONARY"
        changed == previousScore # performanceData.score \/ previousTier # performanceData.tier
        row == [farmerId |-> farmerId,
                previousScore |-> previousScore,
                newScore |-> performanceData.score,
                previousTier |-> previousTier,
                newTier |-> performanceData.tier,
                reason |-> reason,
                deliveryAssignmentId |-> deliveryAssignmentId,
                createdBy |-> createdBy]
        upserted == [store.performance EXCEPT ![farmerId] =
                        Some([score |-> performanceData.score, tier |-> performanceData.tier])]
        upsertedBreakdown ==
            [store.breakdown EXCEPT ![farmerId] = Some(performanceData.breakdown)]
    IN IF failAt = 1
       THEN [code |-> "ERROR", performance |-> store.performance,
             breakdown |-> store.breakdown, history |-> store.history]
       ELSE IF failAt = 2
       THEN [code |-> "ERROR", performance |-> upserted, breakdown |-> store.breakdown,
             history |-> store.history]
       ELSE IF failAt = 3 /\ changed
       THEN [code |-> "ERROR", performance |-> upserted, breakdown |-> upsertedBreakdown,
             history |-> store.history]
       ELSE [code |-> "OK", performance |-> upserted, breakdown |-> upsertedBreakdown,
             history |-> IF changed THEN Append(store.history, row) ELSE store.history]

\* the writes of updatePerformanceScore for the computed performanceData on the tables
\* `store` (FarmerPerformance, FarmerPerformanceBreakdown, FarmerPerformanceHistory).
\* failAt = 0: every statement succeeds; 1: it throws before the first write; 2: the
\* farmerPerformanceBreakdown upsert throws; 3: the farmerPerformanceHistory create
\* throws.  The writes are separate statements, so those before the throw stay.
savePerformance(store, performanceData, farmerId, reason, deliveryAssignmentId, createdBy, failAt) ==
    LET currentPerformance == store.performance[farmerId]
        previousScore ==
            IF currentPerformance # NONE THEN Val(currentPerformance).score
            ELSE DEFAULT_BASE_SCORE
        previousTier ==
            IF currentPerformance # NONE THEN Val(currentPerformance).tier
            ELSE "PROBATIONARY"
        changed == previousScore # performanceData.score \/ previousTier # performanceData.tier
        row == [farmerId |-> farmerId,
                previousScore |-> previousScore,
                newScore |-> performanceData.score,
                previousTier |-> previousTier,
                newTier |-> performanceData.tier,
                reason |-> reason,
                deliveryAssignmentId |-> deliveryAssignmentId,
                createdBy |-> createdBy]
        upserted == [store.performance EXCEPT ![farmerId] =
                        Some([score |-> performanceData.score, tier |-> performanceData.tier])]
        upsertedBreakdown ==
            [store.breakdown EXCEPT ![farmerId] = Some(performanceData.breakdown)]
    IN IF failAt = 1
       THEN [code |-> "ERROR", performance |-> store.performance,
             breakdown |-> store.breakdown, history |-> store.history]
       ELSE IF failAt = 2
       THEN [code |-> "ERROR", performance |-> upserted, breakdown |-> store.breakdown,
             history |-> store.history]
       ELSE IF failAt = 3 /\ changed
       THEN [code |-> "ERROR", performance |-> upserted, breakdown |-> upsertedBreakdown,
             history |-> store.history]
       ELSE [code |-> "OK", performance |-> upserted, breakdown |-> upsertedBreakdown,
             history |-> IF changed THEN Append(store.history, row) ELSE store.history]

\* updatePerformanceScore(farmerId, reason, deliveryAssignmentId, createdBy), reading
\* the DeliveryAssignment table tbl
updatePerformanceScore(tbl, farmerId, reason, deliveryAssignmentId, createdBy, failAt) ==
    savePerformance(Store, calculatePerformanceScore(tbl, farmerId), farmerId, reason,
                    deliveryAssignmentId, createdBy, failAt)

\* getPerformanceData(farmerId): a farmer without a FarmerPerformance row gets one by
\* updatePerformanceScore(farmerId, 'Initial performance calculation')
getPerformanceData(farmerId) ==
    IF performance[farmerId] = NONE
    THEN updatePerformanceScore(assignments, farmerId, "Initial performance calculation",
                                NONE, NONE, 0)
    ELSE [code |-> "OK", performance |-> performance, breakdown |-> breakdown,
          history |-> history]

\* --------------------------------------------------------- week calculation
\* Date.getDay(): 0 = Sunday, 1 = Monday, ..., 6 = Saturday; instant 0 is a Monday 00:00
getDay(date) == ((date \div DayLength) + 1) % 7

\* getWeekStartDate without the adjustment for Sunday
getWeekStartDate_NoSundayAdjust(date) ==
    ((date \div DayLength) - getDay(date) + 1) * DayLength

\* getWeekStartDate(date): Monday 00:00 of the week of `date`, Sunday belonging to the
\* week of the Monday before it
getWeekStartDate(date) ==
    LET day == getDay(date)
        diff == (date \div DayLength) - day + (IF day = 0 THEN 0 - 6 ELSE 1)
    IN diff * DayLength

\* isWithinSubmissionWindow(date)
isWithinSubmissionWindow(date) == getDay(date) = 1 \/ getDay(date) = 2

\* isLateSubmission with the window ending with Wednesday
isLateSubmission_AfterWednesday(submissionDate, weekStartDate) ==
    LET weekMonday == getWeekStartDate(weekStartDate)
        wednesdayEnd == weekMonday + 3 * DayLength - 1
    IN submissionDate > wednesdayEnd

\* isLateSubmission(submissionDate, weekStartDate): after Tuesday 23:59:59.999, the last
\* instant before Wednesday 00:00
isLateSubmission(submissionDate, weekStartDate) ==
    LET weekMonday == getWeekStartDate(weekStartDate)
        tuesdayEnd == weekMonday + 2 * DayLength - 1
    IN submissionDate > tuesdayEnd

\* ------------------------------------------------------- availability service
FailAvailability(code) == [code |-> code, availability |-> availability, ret |-> NONE]

\* weeklyAvailability.findUnique({ farmerId_weekStartDate_productType })
findAvailability(farmerId, weekStartDate, productType) ==
    {r \in availability : /\ r.farmerId = farmerId
                          /\ r.weekStartDate = weekStartDate
                          /\ r.productType = productType}

\* submitWeeklyAvailability without the lookup of an existing row
submitWeeklyAvailability_NoDuplicateCheck(farmerId, productType, quantityAvailable, readyDate) ==
    LET weekStartDate == getWeekStartDate(now)
        isLate == ~isWithinSubmissionWindow(now) \/ isLateSubmission(now, weekStartDate)
        row == [farmerId |-> farmerId,
                weekStartDate |-> weekStartDate,
                productType |-> Trim(productType),
                quantityAvailable |-> quantityAvailable,
                readyDate |-> readyDate,
                isLate |-> isLate]
    IN IF quantityAvailable <= 0 THEN FailAvailability("INVALID_QUANTITY")
       ELSE IF readyDate <= now THEN FailAvailability("INVALID_READY_DATE")
       ELSE IF findAvailability(farmerId, weekStartDate, Trim(productType)) # {}
       THEN FailAvailability("P2002")
       ELSE [code |-> "OK", availability |-> availability \cup {row}, ret |-> Some(row)]

\* submitWeeklyAvailability(farmerId, data); the create fails with Prisma's P2002 when
\* the unique key (farmerId, weekStartDate, productType) is taken
submitWeeklyAvailability(farmerId, productType, quantityAvailable, readyDate) ==
    LET weekStartDate == getWeekStartDate(now)
        isLate == ~isWithinSubmissionWindow(now) \/ isLateSubmission(now, weekStartDate)
        row == [farmerId |-> farmerId,
                weekStartDate |-> weekStartDate,
                productType |-> Trim(productType),
                quantityAvailable |-> quantityAvailable,
                readyDate |-> readyDate,
                isLate |-> isLate]
    IN IF findAvailability(farmerId, weekStartDate, productType) # {}
       THEN FailAvailability("DUPLICATE_SUBMISSION")
       ELSE IF quantityAvailable <= 0 THEN FailAvailability("INVALID_QUANTITY")
       ELSE IF readyDate <= now THEN FailAvailability("INVALID_READY_DATE")
       ELSE IF findAvailability(farmerId, weekStartDate, Trim(productType)) # {}
       THEN FailAvailability("P2002")
       ELSE [code |-> "OK", availability |-> availability \cup {row}, ret |-> Some(row)]

\* ------------------------------------------------------- allocation service
\* prisma.farmer.findMany({ where: { id: { in: farmerIds }, user: { status: { in:
\* [ACTIVE, PROBATIONARY] } } } }): the matching Farmer rows, each at most once
findEligibleFarmers(farmerIds) ==
    {f \in Range(farmerIds) :
        f \in DOMAIN farmerStatus /\ farmerStatus[f] \in {"ACTIVE", "PROBATIONARY"}}

\* the row prisma.deliveryAssignment.create writes for one input row of the batch
NewAssignment(orderId, row) ==
    [orderId |-> orderId,
     farmerId |-> row.farmerId,
     assignedQuantity |-> row.assignedQuantity,
     deliveryDate |-> orders[orderId].deliveryDate,
     deliveryAddressId |-> orders[orderId].deliveryAddressId,
     status |-> "PENDING",
     quantityDelivered |-> NONE,
     qualityResult |-> NONE,
     confirmedBy |-> NONE,
     confirmedAt |-> NONE]

\* the creates issued one by one outside a transaction: the rows before the failing
\* one stay in the table
transaction_NotAtomic(tbl, orderId, rows, failAt) ==
    LET n == IF failAt \in 1 .. Len(rows) THEN failAt - 1 ELSE Len(rows)
        newIds == nextAssignmentId .. (nextAssignmentId + n - 1)
    IN [a \in DOMAIN tbl \cup newIds |->
           IF a \in newIds THEN NewAssignment(orderId, rows[a - nextAssignmentId + 1])
           ELSE tbl[a]]

\* prisma.$transaction([create, create, ...]): the creates are applied in order; when
\* the failAt-th one fails (failAt = 0: none does) the whole batch is rolled back
transaction(tbl, orderId, rows, failAt) ==
    IF failAt \in 1 .. Len(rows) THEN tbl
    ELSE LET newIds == nextAssignmentId .. (nextAssignmentId + Len(rows) - 1)
         IN [a \in DOMAIN tbl \cup newIds |->
                IF a \in newIds THEN NewAssignment(orderId, rows[a - nextAssignmentId + 1])
                ELSE tbl[a]]

\* createDeliveryAssignments without the "order already has assignments" check
createDeliveryAssignments_NoAllocatedCheck(orderId, rows, failAt) ==
    IF orderId \notin DOMAIN orders THEN Fail("ORDER_NOT_FOUND")
    ELSE IF orders[orderId].status # "ALLOCATION" THEN Fail("INVALID_ORDER_STATUS")
    ELSE LET totalAssigned == SumSeq([i \in DOMAIN rows |-> rows[i].assignedQuantity])
             farmerIds == [i \in DOMAIN rows |-> rows[i].farmerId]
             farmers == findEligibleFarmers(farmerIds)
         IN IF totalAssigned > orders[orderId].quantity THEN Fail("OVER_ALLOCATION")
            ELSE IF totalAssigned <= 0 THEN Fail("INVALID_QUANTITY")
            ELSE IF Cardinality(farmers) # Len(farmerIds) THEN Fail("FARMER_NOT_FOUND")
            ELSE IF failAt \in 1 .. Len(rows)
                 THEN [code |-> "TRANSACTION_FAILED",
                       orders |-> orders,
                       assignments |-> transaction(assignments, orderId, rows, failAt),
                       ret |-> NONE]
                 ELSE [code |-> "OK",
                       orders |-> orders,
                       assignments |-> transaction(assignments, orderId, rows, failAt),
                       ret |-> Some([totalAssigned |-> totalAssigned,
                                     remainingQuantity |->
                                         orders[orderId].quantity - totalAssigned,
                                     created |-> Len(rows)])]

\* createDeliveryAssignments(orderId, adminId, data)
createDeliveryAssignments(orderId, rows, failAt) ==
    IF orderId \notin DOMAIN orders THEN Fail("ORDER_NOT_FOUND")
    ELSE IF orders[orderId].status # "ALLOCATION" THEN Fail("INVALID_ORDER_STATUS")
    ELSE IF Cardinality(AssignmentsOf(assignments, orderId)) > 0 THEN Fail("ALREADY_ALLOCATED")
    ELSE LET totalAssigned == SumSeq([i \in DOMAIN rows |-> rows[i].assignedQuantity])
             farmerIds == [i \in DOMAIN rows |-> rows[i].farmerId]
             farmers == findEligibleFarmers(farmerIds)
         IN IF totalAssigned > orders[orderId].quantity THEN Fail("OVER_ALLOCATION")
            ELSE IF totalAssigned <= 0 THEN Fail("INVALID_QUANTITY")
            ELSE IF Cardinality(farmers) # Len(farmerIds) THEN Fail("FARMER_NOT_FOUND")
            ELSE IF failAt \in 1 .. Len(rows)
                 THEN [code |-> "TRANSACTION_FAILED",
                       orders |-> orders,
                       assignments |-> transaction(assignments, orderId, rows, failAt),
                       ret |-> NONE]
                 ELSE [code |-> "OK",
                       orders |-> orders,
                       assignments |-> transaction(assignments, orderId, rows, failAt),
                       ret |-> Some([totalAssigned |-> totalAssigned,
                                     remainingQuantity |->
                                         orders[orderId].quantity - totalAssigned,
                                     created |-> Len(rows)])]

\* the write phase that runs the checks again on the tables as they are now
writeBatch_Rechecked(request) == createDeliveryAssignments(request.orderId, request.rows, 0)

\* the write phase of createDeliveryAssignments for a request whose reads passed every
\* check: prisma.$transaction of the creates, on the table as it is now
writeBatch(request) ==
    [code |-> "OK",
     orders |-> orders,
     assignments |-> transaction(assignments, request.orderId, request.rows, 0),
     ret |-> Some([created |-> Len(request.rows)])]

\* updateAssignment that validates the new quantity alone, not the order's new total
updateAssignment_NoTotalCheck(assignmentId, assignedQuantity) ==
    IF assignmentId \notin DOMAIN assignments THEN Fail("ASSIGNMENT_NOT_FOUND")
    ELSE IF assignments[assignmentId].status # "PENDING" THEN Fail("INVALID_ASSIGNMENT_STATUS")
    ELSE IF assignedQuantity <= 0 THEN Fail("INVALID_QUANTITY")
    ELSE IF assignedQuantity > orders[assignments[assignmentId].orderId].quantity
         THEN Fail("OVER_ALLOCATION")
    ELSE [code |-> "OK",
          orders |-> orders,
          assignments |->
              [assignments EXCEPT ![assignmentId].assignedQuantity = assignedQuantity],
          ret |-> Some(assignmentId)]

\* updateAssignment(assignmentId, adminId, assignedQuantity)
updateAssignment(assignmentId, assignedQuantity) ==
    IF assignmentId \notin DOMAIN assignments THEN Fail("ASSIGNMENT_NOT_FOUND")
    ELSE IF assignments[assignmentId].status # "PENDING" THEN Fail("INVALID_ASSIGNMENT_STATUS")
    ELSE IF assignedQuantity <= 0 THEN Fail("INVALID_QUANTITY")
    ELSE LET orderId == assignments[assignmentId].orderId
             allAssignments == AssignmentsOf(assignments, orderId) \ {assignmentId}
             totalOtherAssignments == TotalAssigned(assignments, allAssignments)
             newTotal == totalOtherAssignments + assignedQuantity
         IN IF newTotal > orders[orderId].quantity THEN Fail("OVER_ALLOCATION")
            ELSE [code |-> "OK",
                  orders |-> orders,
                  assignments |->
                      [assignments EXCEPT ![assignmentId].assignedQuantity = assignedQuantity],
                  ret |-> Some(assignmentId)]

\* deleteAssignment that deletes whatever the row's status
deleteAssignment_AnyStatus(assignmentId) ==
    IF assignmentId \notin DOMAIN assignments THEN Fail("ASSIGNMENT_NOT_FOUND")
    ELSE [code |-> "OK",
          orders |-> orders,
          assignments |-> [a \in DOMAIN assignments \ {assignmentId} |-> assignments[a]],
          ret |-> Some(assignmentId)]

\* deleteAssignment(assignmentId, adminId)
deleteAssignment(assignmentId) ==
    IF assignmentId \notin DOMAIN assignments THEN Fail("ASSIGNMENT_NOT_FOUND")
    ELSE IF assignments[assignmentId].status # "PENDING" THEN Fail("INVALID_ASSIGNMENT_STATUS")
    ELSE [code |-> "OK",
          orders |-> orders,
          assignments |-> [a \in DOMAIN assignments \ {assignmentId} |-> assignments[a]],
          ret |-> Some(assignmentId)]

\* a roll-up that fires only when every assignment of the order is DELIVERED
rollUpApplies_AllDeliveredOnly(tbl, orderId) ==
    LET allAssignments == AssignmentsOf(tbl, orderId)
    IN (\A a \in allAssignments : tbl[a].status = "DELIVERED")
          /\ Cardinality(allAssignments) > 0

\* the conditions under which confirmDelivery issues prisma.order.update, computed
\* from updated.order.assignments (the order's rows as re-read after the update)
rollUpApplies(tbl, orderId) ==
    LET allAssignments == AssignmentsOf(tbl, orderId)
        allDelivered == \A a \in allAssignments : tbl[a].status = "DELIVERED"
        anyFailed == \E a \in allAssignments : tbl[a].status = "FAILED"
    IN \/ allDelivered /\ Cardinality(allAssignments) > 0
       \/ anyFailed /\ \A a \in allAssignments : tbl[a].status \in {"DELIVERED", "FAILED"}

\* a roll-up that fires as soon as one assignment of the order is confirmed
rollUp_AnyConfirmed(tbl, orderId, status) ==
    IF \E a \in AssignmentsOf(tbl, orderId) : tbl[a].status \in {"DELIVERED", "FAILED"}
    THEN "DELIVERED"
    ELSE status

\* the order status after the roll-up at the end of confirmDelivery
rollUp(tbl, orderId, status) ==
    IF rollUpApplies(tbl, orderId) THEN "DELIVERED" ELSE status

\* the result of a call that did not reach updatePerformanceScore
Unscored(r) ==
    [code |-> r.code, orders |-> r.orders, assignments |-> r.assignments, ret |-> r.ret,
     performance |-> performance, breakdown |-> breakdown, history |-> history]

\* the result r of a call with what its try block around updatePerformanceScore wrote
Scored(r, scored) ==
    [code |-> r.code, orders |-> r.orders, assignments |-> r.assignments, ret |-> r.ret,
     performance |-> scored.performance, breakdown |-> scored.breakdown,
     history |-> scored.history]

\* the `reason` confirmDelivery passes to updatePerformanceScore
ScoreReason(delivered, qualityResult) ==
    IF delivered
    THEN "Delivery confirmed: " \o (IF qualityResult # NONE THEN Val(qualityResult)
                                    ELSE "Quality not assessed")
    ELSE "Delivery failed"

\* confirmDelivery without the try/catch around updatePerformanceScore
confirmDelivery_ScoringThrows(assignmentId, adminId, delivered, quantityDelivered, qualityResult, orderUpdateFails, scoringFailAt) ==
    IF assignmentId \notin DOMAIN assignments THEN Unscored(Fail("ASSIGNMENT_NOT_FOUND"))
    ELSE LET assignment == assignments[assignmentId] IN
         IF delivered /\ quantityDelivered # NONE /\ Val(quantityDelivered) < 0
         THEN Unscored(Fail("INVALID_QUANTITY"))
         ELSE IF delivered /\ quantityDelivered # NONE
                 /\ Val(quantityDelivered) > assignment.assignedQuantity
         THEN Unscored(Fail("INVALID_QUANTITY"))
         ELSE LET status == IF delivered THEN "DELIVERED" ELSE "FAILED"
                  updated == [assignments EXCEPT
                      ![assignmentId].status = status,
                      ![assignmentId].quantityDelivered =
                          IF quantityDelivered # NONE THEN quantityDelivered
                          ELSE IF delivered THEN Some(assignment.assignedQuantity) ELSE NONE,
                      ![assignmentId].qualityResult = qualityResult,
                      ![assignmentId].confirmedBy = Some(adminId),
                      ![assignmentId].confirmedAt = Some(now)]
                  orderId == assignment.orderId
              IN IF orderUpdateFails /\ rollUpApplies(updated, orderId)
                 THEN Unscored([code |-> "ORDER_UPDATE_FAILED",
                                orders |-> orders,
                                assignments |-> updated,
                                ret |-> NONE])
                 ELSE LET scored == updatePerformanceScore(
                                        updated, assignment.farmerId,
                                        ScoreReason(delivered, qualityResult),
                                        Some(assignmentId), Some(adminId), scoringFailAt)
                      IN [code |-> scored.code,
                          orders |-> [orders EXCEPT ![orderId].status =
                                         rollUp(updated, orderId, orders[orderId].status)],
                          assignments |-> updated,
                          ret |-> Some(assignmentId),
                          performance |-> scored.performance,
                          breakdown |-> scored.breakdown,
                          history |-> scored.history]

\* confirmDelivery without the upper bound on quantityDelivered
confirmDelivery_NoUpperBound(assignmentId, adminId, delivered, quantityDelivered, qualityResult, orderUpdateFails, scoringFailAt) ==
    IF assignmentId \notin DOMAIN assignments THEN Unscored(Fail("ASSIGNMENT_NOT_FOUND"))
    ELSE LET assignment == assignments[assignmentId] IN
         IF delivered /\ quantityDelivered # NONE /\ Val(quantityDelivered) < 0
         THEN Unscored(Fail("INVALID_QUANTITY"))
         ELSE LET status == IF delivered THEN "DELIVERED" ELSE "FAILED"
                  updated == [assignments EXCEPT
                      ![assignmentId].status = status,
                      ![assignmentId].quantityDelivered =
                          IF quantityDelivered # NONE THEN quantityDelivered
                          ELSE IF delivered THEN Some(assignment.assignedQuantity) ELSE NONE,
                      ![assignmentId].qualityResult = qualityResult,
                      ![assignmentId].confirmedBy = Some(adminId),
                      ![assignmentId].confirmedAt = Some(now)]
                  orderId == assignment.orderId
              IN IF orderUpdateFails /\ rollUpApplies(updated, orderId)
                 THEN Unscored([code |-> "ORDER_UPDATE_FAILED",
                                orders |-> orders,
                                assignments |-> updated,
                                ret |-> NONE])
                 ELSE Scored([code |-> "OK",
                        orders |-> [orders EXCEPT ![orderId].status =
                                       rollUp(updated, orderId, orders[orderId].status)],
                        assignments |-> updated,
                        ret |-> Some(assignmentId)],
                       updatePerformanceScore(
                           updated, assignment.farmerId,
                           ScoreReason(delivered, qualityResult),
                           Some(assignmentId), Some(adminId), scoringFailAt))

\* confirmDelivery(assignmentId, adminId, data).  orderUpdateFails: prisma.order.update
\* of the roll-up throws; scoringFailAt: where updatePerformanceScore throws (0: nowhere).
confirmDelivery(assignmentId, adminId, delivered, quantityDelivered, qualityResult, orderUpdateFails, scoringFailAt) ==
    IF assignmentId \notin DOMAIN assignments THEN Unscored(Fail("ASSIGNMENT_NOT_FOUND"))
    ELSE LET assignment == assignments[assignmentId] IN
         IF delivered /\ quantityDelivered # NONE /\ Val(quantityDelivered) < 0
         THEN Unscored(Fail("INVALID_QUANTITY"))
         ELSE IF delivered /\ quantityDelivered # NONE
                 /\ Val(quantityDelivered) > assignment.assignedQuantity
         THEN Unscored(Fail("INVALID_QUANTITY"))
         ELSE LET status == IF delivered THEN "DELIVERED" ELSE "FAILED"
                  updated == [assignments EXCEPT
                      ![assignmentId].status = status,
                      ![assignmentId].quantityDelivered =
                          IF quantityDelivered # NONE THEN quantityDelivered
                          ELSE IF delivered THEN Some(assignment.assignedQuantity) ELSE NONE,
                      ![assignmentId].qualityResult = qualityResult,
                      ![assignmentId].confirmedBy = Some(adminId),
                      ![assignmentId].confirmedAt = Some(now)]
                  orderId == assignment.orderId
              IN IF orderUpdateFails /\ rollUpApplies(updated, orderId)
                 THEN Unscored([code |-> "ORDER_UPDATE_FAILED",
                                orders |-> orders,
                                assignments |-> updated,
                                ret |-> NONE])
                 ELSE Scored([code |-> "OK",
                        orders |-> [orders EXCEPT ![orderId].status =
                                       rollUp(updated, orderId, orders[orderId].status)],
                        assignments |-> updated,
                        ret |-> Some(assignmentId)],
                       updatePerformanceScore(
                           updated, assignment.farmerId,
                           ScoreReason(delivered, qualityResult),
                           Some(assignmentId), Some(adminId), scoringFailAt))

\* the DeliveryAssignment table after prisma.deliveryAssignment.update of a
\* confirmDelivery request whose read passed the checks, on the table as it is now;
\* the default of quantityDelivered is the assignedQuantity the request read
confirmUpdate(request) ==
    [assignments EXCEPT
        ![request.assignmentId].status = IF request.delivered THEN "DELIVERED" ELSE "FAILED",
        ![request.assignmentId].quantityDelivered =
            IF request.quantityDelivered # NONE THEN request.quantityDelivered
            ELSE IF request.delivered THEN Some(request.assignedQuantity) ELSE NONE,
        ![request.assignmentId].qualityResult = request.qualityResult,
        ![request.assignmentId].confirmedBy = Some(request.adminId),
        ![request.assignmentId].confirmedAt = Some(now)]

\* the Order table after the roll-up of a request that found, in the rows its update
\* returned, that the order is complete (request.rollUp)
confirmRollUp(request) ==
    IF request.rollUp THEN [orders EXCEPT ![request.orderId].status = "DELIVERED"]
    ELSE orders

\* the updatePerformanceScore call at the end of the request
confirmScore(request) ==
    updatePerformanceScore(assignments, request.farmerId,
                           ScoreReason(request.delivered, request.qualityResult),
                           Some(request.assignmentId), Some(request.adminId), 0)

\* ---------------------------------------------------------- payment service
\* the placeholder price of one unit
pricePerUnit == 100

FailPayment(code) == [code |-> code, payments |-> payments, ret |-> NONE]

\* payment.findMany({ where: { farmerId } })
paymentsOf(farmerId) == SelectSeq(payments, LAMBDA p : p.farmerId = farmerId)

\* calculateAmountOwed that counts every assignment of the farmer
calculateAmountOwed_AnyStatus(farmerId) ==
    LET deliveredAssignments == {a \in DOMAIN assignments :
                                    assignments[a].farmerId = farmerId}
        totalOwed == SumOver([a \in deliveredAssignments |->
                                 assignments[a].assignedQuantity * pricePerUnit],
                             deliveredAssignments)
        paid == paymentsOf(farmerId)
        totalPaid == SumSeq([i \in DOMAIN paid |-> paid[i].amountPaid])
    IN  [totalOwed |-> totalOwed,
         totalPaid |-> totalPaid,
         outstandingBalance |-> totalOwed - totalPaid,
         deliveredAssignments |-> Cardinality(deliveredAssignments)]

\* calculateAmountOwed(farmerId): the two findMany and the two reduce
calculateAmountOwed(farmerId) ==
    LET deliveredAssignments == {a \in DOMAIN assignments :
                                    /\ assignments[a].farmerId = farmerId
                                    /\ assignments[a].status = "DELIVERED"}
        totalOwed == SumOver([a \in deliveredAssignments |->
                                 assignments[a].assignedQuantity * pricePerUnit],
                             deliveredAssignments)
        paid == paymentsOf(farmerId)
        totalPaid == SumSeq([i \in DOMAIN paid |-> paid[i].amountPaid])
    IN  [totalOwed |-> totalOwed,
         totalPaid |-> totalPaid,
         outstandingBalance |-> totalOwed - totalPaid,
         deliveredAssignments |-> Cardinality(deliveredAssignments)]

getOutstandingBalance(farmerId) == calculateAmountOwed(farmerId)

\* the status recordPayment derives from the totals
derivePaymentStatus(totalOwed, newTotalPaid) ==
    IF newTotalPaid >= totalOwed THEN "PAID"
    ELSE IF newTotalPaid > 0 THEN "PARTIALLY_PAID"
    ELSE "NOT_PAID"

\* recordPayment that calls a payment that exactly settles the balance partial
recordPayment_StrictlyMore(adminId, farmerId, deliveryAssignmentId, amountPaid) ==
    IF farmerId \notin DOMAIN farmerStatus THEN FailPayment("FARMER_NOT_FOUND")
    ELSE IF /\ deliveryAssignmentId # NONE
            /\ ~(/\ Val(deliveryAssignmentId) \in DOMAIN assignments
                 /\ assignments[Val(deliveryAssignmentId)].farmerId = farmerId)
         THEN FailPayment("ASSIGNMENT_NOT_FOUND")
    ELSE IF amountPaid <= 0 THEN FailPayment("INVALID_AMOUNT")
    ELSE LET owed == calculateAmountOwed(farmerId)
             payment == [farmerId |-> farmerId,
                         deliveryAssignmentId |-> deliveryAssignmentId,
                         amountOwed |-> owed.totalOwed - owed.totalPaid,
                         amountPaid |-> amountPaid,
                         paymentStatus |->
                             IF owed.totalPaid + amountPaid > owed.totalOwed
                             THEN "PAID" ELSE "PARTIALLY_PAID",
                         recordedBy |-> adminId]
         IN  [code |-> "OK", payments |-> Append(payments, payment),
              ret |-> Some(payment)]

\* recordPayment(adminId, data)
recordPayment(adminId, farmerId, deliveryAssignmentId, amountPaid) ==
    IF farmerId \notin DOMAIN farmerStatus THEN FailPayment("FARMER_NOT_FOUND")
    ELSE IF /\ deliveryAssignmentId # NONE
            /\ ~(/\ Val(deliveryAssignmentId) \in DOMAIN assignments
                 /\ assignments[Val(deliveryAssignmentId)].farmerId = farmerId)
         THEN FailPayment("ASSIGNMENT_NOT_FOUND")
    ELSE IF amountPaid <= 0 THEN FailPayment("INVALID_AMOUNT")
    ELSE LET owed == calculateAmountOwed(farmerId)
             payment == [farmerId |-> farmerId,
                         deliveryAssignmentId |-> deliveryAssignmentId,
                         amountOwed |-> owed.totalOwed - owed.totalPaid,
                         amountPaid |-> amountPaid,
                         paymentStatus |->
                             derivePaymentStatus(owed.totalOwed,
                                                 owed.totalPaid + amountPaid),
                         recordedBy |-> adminId]
         IN  [code |-> "OK", payments |-> Append(payments, payment),
              ret |-> Some(payment)]

\* ------------------------------------------------------------ buyer service
FailAddress(code) ==
    [code |-> code, addressOwner |-> addressOwner, isDefault |-> isDefault,
     buyerStatus |-> buyerStatus]

\* the buyer's addresses with isDefault = true in the given table
defaultsOf(owner, defaults, buyerId) ==
    {a \in DOMAIN owner : owner[a] = buyerId /\ defaults[a]}

\* the id of a row created in a table that holds the given ids
newAddressId(used) == CHOOSE a \in NewAddressIds : a \notin used

\* deliveryAddress.updateMany({ where: { buyerId, id: { not }, isDefault: true },
\* data: { isDefault: false } })
unsetDefaults(defaults, buyerId, except) ==
    [a \in DOMAIN defaults |->
        IF addressOwner[a] = buyerId /\ a \notin except THEN FALSE ELSE defaults[a]]

\* createDeliveryAddress(buyerId, data)
createDeliveryAddress(buyerId, dataIsDefault) ==
    LET unset == IF dataIsDefault = Some(TRUE)
                 THEN unsetDefaults(isDefault, buyerId, {})
                 ELSE isDefault
        existingDefault == defaultsOf(addressOwner, unset, buyerId) # {}
        newDefault == IF dataIsDefault # NONE THEN Val(dataIsDefault)
                      ELSE ~existingDefault
        id == newAddressId(DOMAIN addressOwner)
    IN  [code |-> "OK",
         addressOwner |-> (id :> buyerId) @@ addressOwner,
         isDefault |-> (id :> newDefault) @@ unset,
         buyerStatus |-> buyerStatus]

\* updateDeliveryAddress(addressId, buyerId, data)
updateDeliveryAddress(addressId, buyerId, dataIsDefault) ==
    IF ~(addressId \in DOMAIN addressOwner /\ addressOwner[addressId] = buyerId)
    THEN FailAddress("ADDRESS_NOT_FOUND")
    ELSE LET unset == IF dataIsDefault = Some(TRUE)
                      THEN unsetDefaults(isDefault, buyerId, {addressId})
                      ELSE isDefault
         IN  [code |-> "OK",
              addressOwner |-> addressOwner,
              isDefault |-> IF dataIsDefault = NONE THEN unset
                            ELSE [unset EXCEPT ![addressId] = Val(dataIsDefault)],
              buyerStatus |-> buyerStatus]

\* deleteDeliveryAddress(addressId, buyerId)
deleteDeliveryAddress(addressId, buyerId) ==
    IF ~(addressId \in DOMAIN addressOwner /\ addressOwner[addressId] = buyerId)
    THEN FailAddress("ADDRESS_NOT_FOUND")
    ELSE IF \E o \in DOMAIN orders : orders[o].deliveryAddressId = addressId
    THEN FailAddress("ADDRESS_IN_USE")
    ELSE [code |-> "OK",
          addressOwner |-> [a \in DOMAIN addressOwner \ {addressId} |-> addressOwner[a]],
          isDefault |-> [a \in DOMAIN isDefault \ {addressId} |-> isDefault[a]],
          buyerStatus |-> buyerStatus]

\* tx.deliveryAddress.createMany of registerBuyer, from the address at index on
\* (index counted from 0 as in the code)
RECURSIVE createManyAddresses(_, _, _, _)
createManyAddresses(tables, buyerId, deliveryAddresses, index) ==
    IF index >= Len(deliveryAddresses) THEN tables
    ELSE LET addr == deliveryAddresses[index + 1]
             addrIsDefault == addr # NONE /\ Val(addr)
             id == newAddressId(DOMAIN tables.addressOwner)
         IN  createManyAddresses(
                 [addressOwner |-> (id :> buyerId) @@ tables.addressOwner,
                  isDefault |-> (id :> (addrIsDefault \/ (index = 0 /\ ~addrIsDefault)))
                                @@ tables.isDefault],
                 buyerId, deliveryAddresses, index + 1)

\* registerBuyer(data): the buyer is named by the email and phone of the request
registerBuyer(buyerId, deliveryAddresses) ==
    IF buyerId \in DOMAIN buyerStatus THEN FailAddress("DUPLICATE_USER")
    ELSE LET tables == createManyAddresses(
                           [addressOwner |-> addressOwner, isDefault |-> isDefault],
                           buyerId, deliveryAddresses, 0)
         IN  [code |-> "OK",
              addressOwner |-> tables.addressOwner,
              isDefault |-> tables.isDefault,
              buyerStatus |-> (buyerId :> "PENDING") @@ buyerStatus]

\* --------------------------------------------------------- password service
\* hashPassword(password): the stored value is not the password
hashPassword(password) == <<"hash", password>>

\* expiresAt.setHours(expiresAt.getHours() + 1)
TokenLifetime == 1

\* the email and the phone number of each user
Contacts == [u \in UserIds |-> IF u = "u1" THEN {"u1@mail", "0701"}
                                           ELSE {"u2@mail", "0702"}]

\* prisma.user.findFirst({ where: { OR: [{ email }, { phone }] } })
findUser(emailOrPhone) == {u \in UserIds : emailOrPhone \in Contacts[u]}

\* tokens whose expiresAt is before new Date()
expired(entry) == entry.expiresAt < hour

\* the setInterval callback: delete every expired entry
cleanup ==
    [t \in {t \in DOMAIN resetTokens : ~expired(resetTokens[t])} |-> resetTokens[t]]

\* resetTokens.delete(token)
deleteToken(token) == [t \in DOMAIN resetTokens \ {token} |-> resetTokens[t]]

\* generatePasswordResetToken(emailOrPhone); crypto.randomBytes gives a value never
\* drawn before
generatePasswordResetToken(emailOrPhone) ==
    IF findUser(emailOrPhone) = {}
    THEN [resetTokens |-> resetTokens, nextToken |-> nextToken, ret |-> "token_generated"]
    ELSE LET user == CHOOSE u \in findUser(emailOrPhone) : TRUE
             token == nextToken
         IN  [resetTokens |-> (token :> [userId |-> user, token |-> token,
                                         expiresAt |-> hour + TokenLifetime])
                              @@ resetTokens,
              nextToken |-> nextToken + 1,
              ret |-> token]

\* resetPassword up to the await of hashPassword: the two tests on the token
resetPasswordCheck(token) ==
    IF token \notin DOMAIN resetTokens
    THEN [code |-> "INVALID_TOKEN", resetTokens |-> resetTokens, tokenData |-> NONE]
    ELSE IF expired(resetTokens[token])
    THEN [code |-> "TOKEN_EXPIRED", resetTokens |-> deleteToken(token), tokenData |-> NONE]
    ELSE [code |-> "OK", resetTokens |-> resetTokens,
          tokenData |-> Some(resetTokens[token])]

\* resetPassword after the await of hashPassword: prisma.user.update with the userId
\* read before the await, then resetTokens.delete(token)
resetPasswordWrite(request) ==
    [passwordHash |-> [passwordHash EXCEPT ![request.tokenData.userId] =
                                               hashPassword(request.newPassword)],
     resetTokens |-> deleteToken(request.token)]

\* verifyResetToken(token)
verifyResetToken(token) ==
    IF token \notin DOMAIN resetTokens
    THEN [resetTokens |-> resetTokens, ret |-> FALSE]
    ELSE IF expired(resetTokens[token])
    THEN [resetTokens |-> deleteToken(token), ret |-> FALSE]
    ELSE [resetTokens |-> resetTokens, ret |-> TRUE]

\* ------------------------------------------------- validators and handlers
\* createOrderSchema: quantity a positive integer, deliveryDate in the future
createOrderSchema(quantity, deliveryDate) == quantity > 0 /\ deliveryDate > now

\* createAllocationSchema without .positive() on assignedQuantity
createAllocationSchema_NoPositive(rows) == Len(rows) >= 1

\* createAllocationSchema: at least one row, every assignedQuantity a positive integer
createAllocationSchema(rows) ==
    /\ Len(rows) >= 1
    /\ \A i \in DOMAIN rows : rows[i].assignedQuantity > 0

\* updateAssignmentSchema: assignedQuantity a positive integer
updateAssignmentSchema(assignedQuantity) == assignedQuantity > 0

\* createOrderHandler: schema.parse(req.body), then createOrder
createOrderHandler(buyerId, quantity, deliveryDate, deliveryAddressId) ==
    IF ~createOrderSchema(quantity, deliveryDate) THEN Fail("VALIDATION_ERROR")
    ELSE createOrder(buyerId, quantity, deliveryDate, deliveryAddressId)

\* rejectOrderHandler: a reject request needs a non-empty rejection reason, then
\* rejectOrder
rejectOrderHandler(orderId, adminId, rejectionReason) ==
    IF rejectionReason = "" THEN Fail("VALIDATION_ERROR")
    ELSE rejectOrder(orderId, adminId, rejectionReason)

\* weeklyAvailabilitySchema: productType of at least one character, trimmed;
\* quantityAvailable a positive integer; readyDate in the future
weeklyAvailabilitySchema(productType, quantityAvailable, readyDate) ==
    productType # "" /\ quantityAvailable > 0 /\ readyDate > now

\* submitAvailabilityHandler: the farmer of the authenticated user,
\* weeklyAvailabilitySchema.parse(req.body), then submitWeeklyAvailability
submitAvailabilityHandler(farmerId, productType, quantityAvailable, readyDate) ==
    IF farmerId \notin DOMAIN farmerStatus THEN FailAvailability("NOT_FOUND")
    ELSE IF ~weeklyAvailabilitySchema(productType, quantityAvailable, readyDate)
    THEN FailAvailability("VALIDATION_ERROR")
    ELSE submitWeeklyAvailability(farmerId, Trim(productType), quantityAvailable, readyDate)

\* createAssignmentsHandler: schema.parse(req.body), then createDeliveryAssignments
createAssignmentsHandler(orderId, rows, failAt) ==
    IF ~createAllocationSchema(rows) THEN Fail("VALIDATION_ERROR")
    ELSE createDeliveryAssignments(orderId, rows, failAt)

\* updateAssignmentHandler: schema.parse(req.body), then updateAssignment
updateAssignmentHandler(assignmentId, assignedQuantity) ==
    IF ~updateAssignmentSchema(assignedQuantity) THEN Fail("VALIDATION_ERROR")
    ELSE updateAssignment(assignmentId, assignedQuantity)

\* ------------------------------------------------------------------ actions
Init ==
    /\ orders = <<>>
    /\ assignments = <<>>
    /\ farmerStatus = [f \in FarmerIds |-> CASE f = "f1" -> "ACTIVE"
                                             [] f = "f2" -> "PROBATIONARY"
                                             [] OTHER -> "SUSPENDED"]
    /\ buyerStatus = [b \in BuyerIds |-> IF b = "b1" THEN "ACTIVE" ELSE "PENDING"]
    /\ addressOwner = [a \in AddressIds |-> IF a = "addr1" THEN "b1" ELSE "b2"]
    /\ nextOrderId = 1
    /\ nextAssignmentId = 1
    /\ now = 0
    /\ batches = [o \in OrderIds |-> 0]
    /\ decisions = [o \in OrderIds |-> 0]
    /\ performance = [f \in FarmerIds |-> NONE]
    /\ breakdown = [f \in FarmerIds |-> NONE]
    /\ history = <<>>
    /\ availability = {}
    /\ faults = 0
    /\ requests = [p \in Processes |-> NONE]
    /\ payments = <<>>
    /\ isDefault = [a \in AddressIds |-> TRUE]
    /\ resetTokens = <<>>
    /\ passwordHash = [u \in UserIds |-> hashPassword("initial")]
    /\ hour = 0
    /\ nextToken = 1
    /\ resets = [t \in TokenIds |-> 0]
    /\ last = "init"

\* the writes of a call that returned normally
Commit(op, r) ==
    /\ r.code = "OK"
    /\ orders' = r.orders
    /\ assignments' = r.assignments
    /\ last' = op

\* the writes of updatePerformanceScore
Score(r) ==
    /\ performance' = r.performance
    /\ breakdown' = r.breakdown
    /\ history' = r.history

\* the writes of a confirmDelivery call that returned normally
Confirm(r) ==
    /\ Commit("confirmDelivery", r)
    /\ Len(r.history) <= MaxHistory
    /\ Score(r)

\* updatePerformanceScore, called after the assignment update of the call that
\* returned r, throws at failAt
ScoringThrows(r, a, admin, delivered, quality, failAt) ==
    updatePerformanceScore(r.assignments, r.assignments[a].farmerId,
                           ScoreReason(delivered, quality), Some(a), Some(admin),
                           failAt).code = "ERROR"

\* the writes of a confirmDelivery call whose order update threw
ConfirmInterrupted(r) ==
    /\ r.code = "ORDER_UPDATE_FAILED"
    /\ orders' = r.orders
    /\ assignments' = r.assignments
    /\ last' = "confirmDelivery failed"
    /\ Score(r)

auth == <<resetTokens, passwordHash, hour, nextToken, resets>>
accounts == <<farmerStatus, buyerStatus, addressOwner, isDefault, payments, auth, faults>>
scores == <<performance, breakdown, history, availability>>

\* POST /orders while at most n orders exist, with a quantity of the given set
CreateOrderOf(n, quantities) ==
    \E b \in BuyerIds \cup {"b0"}, q \in quantities, d \in DeliveryDateInputs,
       addr \in AddressIds :
        LET r == createOrderHandler(b, q, d, addr) IN
        /\ nextOrderId <= n
        /\ Commit("createOrder", r)
        /\ nextOrderId' = nextOrderId + 1
        /\ UNCHANGED <<accounts, scores, nextAssignmentId, now, requests, batches, decisions>>

CreateOrder == CreateOrderOf(MaxOrders, 0 .. MaxQuantity)

\* the buyers place one order more, each of one unit
CreateOrders == CreateOrderOf(MaxOrders + 1, ScoringOrderQuantityInputs)

\* POST /orders/:id/approve with a body without adminNotes
ApproveOrder ==
    \E o \in OrderIdInputs, admin \in AdminIds :
        LET r == approveOrder(o, admin, NONE) IN
        /\ Commit("approveOrder", r)
        /\ decisions' = [decisions EXCEPT ![o] = @ + 1]
        /\ UNCHANGED <<accounts, scores, nextOrderId, nextAssignmentId, now, requests, batches>>

\* POST /orders/:id/approve with adminNotes in the body
ApproveOrderWithNotes ==
    \E o \in OrderIdInputs, admin \in AdminIds, adminNotes \in AdminNotesInputs \ {NONE} :
        LET r == approveOrder(o, admin, adminNotes) IN
        /\ Commit("approveOrder", r)
        /\ decisions' = [decisions EXCEPT ![o] = @ + 1]
        /\ UNCHANGED <<accounts, scores, nextOrderId, nextAssignmentId, now, requests, batches>>

RejectOrder ==
    \E o \in OrderIdInputs, admin \in AdminIds, reason \in ReasonInputs :
        LET r == rejectOrderHandler(o, admin, reason) IN
        /\ Commit("rejectOrder", r)
        /\ decisions' = [decisions EXCEPT ![o] = @ + 1]
        /\ UNCHANGED <<accounts, scores, nextOrderId, nextAssignmentId, now, requests, batches>>

\* updateBuyerStatus(buyerId, newStatus, adminId)
UpdateBuyerStatus ==
    \E b \in BuyerIds, newStatus \in BuyerStatusInputs :
        /\ buyerStatus' = [buyerStatus EXCEPT ![b] = newStatus]
        /\ last' = "updateBuyerStatus"
        /\ UNCHANGED <<orders, assignments, farmerStatus, addressOwner, isDefault,
                       payments, auth, faults, scores,
                       nextOrderId, nextAssignmentId, now, requests, batches, decisions>>

\* POST /api/admin/allocations with the assignment list drawn from the given set
CreateDeliveryAssignmentsWith(inputs) ==
    \E o \in OrderIdInputs, rows \in inputs :
        LET r == createAssignmentsHandler(o, rows, 0) IN
        /\ nextAssignmentId + Len(rows) - 1 <= MaxAssignments
        /\ Commit("createDeliveryAssignments", r)
        /\ nextAssignmentId' = nextAssignmentId + Len(rows)
        /\ batches' = [batches EXCEPT ![o] = @ + 1]
        /\ UNCHANGED <<accounts, scores, nextOrderId, now, requests, decisions>>

CreateDeliveryAssignments == CreateDeliveryAssignmentsWith(RequestAllocationInputs)

\* the admin assigns one unit of an order to farmer f1
AllocateToOne == CreateDeliveryAssignmentsWith(ScoringAllocationInputs)

\* a create of the batch fails inside prisma.$transaction
CreateDeliveryAssignmentsFails ==
    \E o \in DOMAIN orders, rows \in CreateAllocationInputs :
        /\ createAssignmentsHandler(o, rows, 0).code = "OK"
        /\ \E failAt \in 1 .. Len(rows) :
               LET r == createAssignmentsHandler(o, rows, failAt) IN
               /\ r.code = "TRANSACTION_FAILED"
               /\ orders' = r.orders
               /\ assignments' = r.assignments
               /\ last' = "createDeliveryAssignments failed"
        /\ UNCHANGED <<accounts, scores, nextOrderId, nextAssignmentId, now, requests, batches, decisions>>

UpdateAssignment ==
    \E a \in AssignmentIdInputs, q \in QuantityInputs :
        /\ Commit("updateAssignment", updateAssignmentHandler(a, q))
        /\ UNCHANGED <<accounts, scores, nextOrderId, nextAssignmentId, now, requests, batches, decisions>>

DeleteAssignment ==
    \E a \in AssignmentIdInputs :
        /\ Commit("deleteAssignment", deleteAssignment(a))
        /\ UNCHANGED <<accounts, scores, nextOrderId, nextAssignmentId, now, requests, batches, decisions>>

\* POST /deliveries/:id/confirm with quantityDelivered and qualityResult drawn from
\* the given sets
ConfirmDeliveryWith(quantities, qualities) ==
    \E a \in AssignmentIdInputs, admin \in AdminIds, delivered \in BOOLEAN,
       qd \in quantities, quality \in qualities :
        /\ Confirm(confirmDelivery(a, admin, delivered, qd, quality, FALSE, 0))
        /\ UNCHANGED <<accounts, availability, nextOrderId, nextAssignmentId, now, requests, batches,
                       decisions>>

ConfirmDelivery == ConfirmDeliveryWith(QuantityDeliveredInputs, QualityResultInputs)

\* the same requests with the optional fields omitted or set to one valid value
ConfirmDeliveryPlain == ConfirmDeliveryWith(PlainQuantityInputs, PlainQualityInputs)

\* the confirmations of complete deliveries that passed the quality check in full or
\* in part, and of failed deliveries
ConfirmDeliveryGraded == ConfirmDeliveryWith(ScoringQuantityInputs, ScoringQualityInputs)

\* the same requests with the optional fields omitted
ConfirmDeliveryBare == ConfirmDeliveryWith({NONE}, {NONE})

\* updatePerformanceScore throws inside confirmDelivery's try block
ConfirmDeliveryScoringFails ==
    \E a \in AssignmentIdInputs, admin \in AdminIds, delivered \in BOOLEAN,
       qd \in PlainQuantityInputs, quality \in PlainQualityInputs, failAt \in 1 .. 3 :
        /\ faults < MaxFaults
        /\ a \in DOMAIN assignments
        /\ ScoringThrows(confirmDelivery(a, admin, delivered, qd, quality, FALSE, failAt),
                         a, admin, delivered, quality, failAt)
        /\ Confirm(confirmDelivery(a, admin, delivered, qd, quality, FALSE, failAt))
        /\ faults' = faults + 1
        /\ UNCHANGED <<farmerStatus, buyerStatus, addressOwner, isDefault, payments,
                       auth, availability, nextOrderId,
                       nextAssignmentId, now, requests, batches, decisions>>

\* prisma.order.update of the roll-up throws: confirmDelivery rejects after the
\* assignment update was written
ConfirmDeliveryOrderUpdateFails ==
    \E a \in AssignmentIdInputs, admin \in AdminIds, delivered \in BOOLEAN,
       qd \in PlainQuantityInputs, quality \in PlainQualityInputs :
        /\ faults < MaxFaults
        /\ ConfirmInterrupted(confirmDelivery(a, admin, delivered, qd, quality, TRUE, 0))
        /\ faults' = faults + 1
        /\ UNCHANGED <<farmerStatus, buyerStatus, addressOwner, isDefault, payments,
                       auth, availability, nextOrderId,
                       nextAssignmentId, now, requests, batches, decisions>>

\* the writes of a submitWeeklyAvailability call that returned normally
Submit(r) ==
    /\ r.code = "OK"
    /\ availability' = r.availability
    /\ last' = "submitWeeklyAvailability"

\* POST /api/farmers/availability by a farmer whose account may use the farmer routes
SubmitAvailabilityOf(farmers, products) ==
    \E f \in farmers, productType \in products,
       quantityAvailable \in QuantityAvailableInputs, delay \in ReadyDelayInputs :
        /\ farmerStatus[f] \in {"ACTIVE", "PROBATIONARY"}
        /\ Submit(submitAvailabilityHandler(f, productType, quantityAvailable, now + delay))
        /\ UNCHANGED <<orders, assignments, accounts, performance, breakdown, history,
                       nextOrderId, nextAssignmentId, now, requests, batches, decisions>>

SubmitAvailability == SubmitAvailabilityOf(FarmerIds, ProductTypeInputs)

\* the submissions of farmer f1
SubmitAvailabilityOne == SubmitAvailabilityOf(ScoringFarmerIds, ScoringProductInputs)

\* GET /api/farmers/performance by a farmer whose account may use the farmer routes;
\* a request that finds the farmer's row stored writes nothing and is no step
GetPerformance ==
    \E f \in ScoringFarmerIds :
        LET r == getPerformanceData(f) IN
        /\ farmerStatus[f] \in {"ACTIVE", "PROBATIONARY"}
        /\ r.code = "OK"
        /\ r.performance # performance
        /\ Len(r.history) <= MaxHistory
        /\ Score(r)
        /\ last' = "getPerformanceData"
        /\ UNCHANGED <<orders, assignments, accounts, availability, nextOrderId,
                       nextAssignmentId, now, requests, batches, decisions>>

\* time passes
Advance(d) ==
    /\ now' = now + d
    /\ UNCHANGED <<orders, assignments, accounts, scores, nextOrderId, nextAssignmentId,
                   requests, batches, decisions, last>>

\* a day of the first days of the week passes
Tomorrow == now + DayLength <= MaxDelay /\ Advance(DayLength)

NextDay == now + DayLength <= MaxNow /\ Advance(DayLength)

\* a createDeliveryAssignments request reads the order with its assignments and the
\* farmers, and passes every check
AllocateRead ==
    \E p \in Processes, o \in DOMAIN orders, rows \in CreateAllocationInputs :
        /\ requests[p] = NONE
        /\ createAssignmentsHandler(o, rows, 0).code = "OK"
        /\ requests' = [requests EXCEPT ![p] = Some([orderId |-> o, rows |-> rows])]
        /\ last' = "createDeliveryAssignments read"
        /\ UNCHANGED <<orders, assignments, accounts, scores, nextOrderId, nextAssignmentId,
                       now, batches, decisions>>

\* the request runs its prisma.$transaction and returns
AllocateWrite ==
    \E p \in Processes :
        /\ requests[p] # NONE
        /\ nextAssignmentId + Len(Val(requests[p]).rows) - 1 <= MaxAssignments
        /\ Commit("createDeliveryAssignments", writeBatch(Val(requests[p])))
        /\ nextAssignmentId' = nextAssignmentId + Len(Val(requests[p]).rows)
        /\ batches' = [batches EXCEPT ![Val(requests[p]).orderId] = @ + 1]
        /\ requests' = [requests EXCEPT ![p] = NONE]
        /\ UNCHANGED <<accounts, scores, nextOrderId, now, decisions>>

\* an approveOrder request reads the order with its buyer and passes the checks
ApproveRead ==
    \E p \in Processes, o \in DOMAIN orders, admin \in AdminIds,
       adminNotes \in AdminNotesInputs :
        /\ requests[p] = NONE
        /\ approveOrder(o, admin, adminNotes).code = "OK"
        /\ requests' = [requests EXCEPT ![p] =
                           Some([op |-> "approveOrder", orderId |-> o, adminId |-> admin,
                                 adminNotes |-> adminNotes, notes |-> orders[o].notes])]
        /\ last' = "approveOrder read"
        /\ UNCHANGED <<orders, assignments, accounts, scores, nextOrderId, nextAssignmentId,
                       now, batches, decisions>>

\* a rejectOrder request reads the order and passes the checks
RejectRead ==
    \E p \in Processes, o \in DOMAIN orders, admin \in AdminIds, reason \in ReasonInputs :
        /\ requests[p] = NONE
        /\ rejectOrderHandler(o, admin, reason).code = "OK"
        /\ requests' = [requests EXCEPT ![p] =
                           Some([op |-> "rejectOrder", orderId |-> o, adminId |-> admin,
                                 rejectionReason |-> reason])]
        /\ last' = "rejectOrder read"
        /\ UNCHANGED <<orders, assignments, accounts, scores, nextOrderId, nextAssignmentId,
                       now, batches, decisions>>

\* the writes of the second half of a decision request
Decide(p, op, tbl) ==
    /\ orders' = tbl
    /\ decisions' = [decisions EXCEPT ![Val(requests[p]).orderId] = @ + 1]
    /\ requests' = [requests EXCEPT ![p] = NONE]
    /\ last' = op
    /\ UNCHANGED <<assignments, accounts, scores, nextOrderId, nextAssignmentId, now,
                   batches>>

\* the approveOrder request updates the order and returns
ApproveWrite ==
    \E p \in Processes :
        /\ requests[p] # NONE
        /\ Val(requests[p]).op = "approveOrder"
        /\ Decide(p, "approveOrder", approveWrite(Val(requests[p])))

\* the rejectOrder request updates the order and returns
RejectWrite ==
    \E p \in Processes :
        /\ requests[p] # NONE
        /\ Val(requests[p]).op = "rejectOrder"
        /\ Decide(p, "rejectOrder", rejectWrite(Val(requests[p])))

\* the requests in flight
InFlight == {p \in Processes : requests[p] # NONE}

\* a confirmDelivery request for a PENDING assignment, with the optional fields
\* omitted, reads the assignment and passes the checks
ConfirmRead ==
    \E p \in Processes, a \in DOMAIN assignments, admin \in AdminIds, delivered \in BOOLEAN,
       qd \in {NONE}, quality \in {NONE} :
        /\ requests[p] = NONE
        /\ Len(history) + Cardinality(InFlight) < MaxHistory
        /\ assignments[a].status = "PENDING"
        /\ confirmDelivery(a, admin, delivered, qd, quality, FALSE, 0).code = "OK"
        /\ requests' = [requests EXCEPT ![p] =
                           Some([stage |-> "read",
                                 assignmentId |-> a,
                                 adminId |-> admin,
                                 delivered |-> delivered,
                                 quantityDelivered |-> qd,
                                 qualityResult |-> quality,
                                 assignedQuantity |-> assignments[a].assignedQuantity,
                                 orderId |-> assignments[a].orderId,
                                 farmerId |-> assignments[a].farmerId,
                                 rollUp |-> FALSE])]
        /\ last' = "confirmDelivery read"
        /\ UNCHANGED <<orders, assignments, accounts, scores, nextOrderId, nextAssignmentId,
                       now, batches, decisions>>

\* the request updates its assignment and gets the order's assignments back
ConfirmUpdate ==
    \E p \in Processes :
        /\ requests[p] # NONE
        /\ Val(requests[p]).stage = "read"
        /\ assignments' = confirmUpdate(Val(requests[p]))
        /\ requests' = [requests EXCEPT ![p] =
                           Some([Val(requests[p]) EXCEPT
                                    !.stage = "updated",
                                    !.rollUp = rollUpApplies(confirmUpdate(Val(requests[p])),
                                                             Val(requests[p]).orderId)])]
        /\ last' = "confirmDelivery update"
        /\ UNCHANGED <<orders, accounts, scores, nextOrderId, nextAssignmentId, now, batches,
                       decisions>>

\* the request updates the order when the rows it got back were all confirmed
ConfirmRollUp ==
    \E p \in Processes :
        /\ requests[p] # NONE
        /\ Val(requests[p]).stage = "updated"
        /\ orders' = confirmRollUp(Val(requests[p]))
        /\ requests' = [requests EXCEPT ![p] = Some([Val(requests[p]) EXCEPT !.stage = "rolled"])]
        /\ last' = "confirmDelivery roll-up"
        /\ UNCHANGED <<assignments, accounts, scores, nextOrderId, nextAssignmentId, now,
                       batches, decisions>>

\* the request recomputes the farmer's score and returns
ConfirmScore ==
    \E p \in Processes :
        /\ requests[p] # NONE
        /\ Val(requests[p]).stage = "rolled"
        /\ Score(confirmScore(Val(requests[p])))
        /\ requests' = [requests EXCEPT ![p] = NONE]
        /\ last' = "confirmDelivery"
        /\ UNCHANGED <<orders, assignments, accounts, availability, nextOrderId,
                       nextAssignmentId, now, batches, decisions>>

Next ==
    \/ CreateOrder
    \/ ApproveOrder
    \/ RejectOrder
    \/ CreateDeliveryAssignments
    \/ CreateDeliveryAssignmentsFails
    \/ UpdateAssignment
    \/ DeleteAssignment
    \/ ConfirmDelivery

Spec == Init /\ [][Next]_vars

\* the order lifecycle alone, with the admin's notes and changes of the buyers'
\* account status
NextOrders ==
    \/ CreateOrder
    \/ ApproveOrder
    \/ ApproveOrderWithNotes
    \/ RejectOrder
    \/ UpdateBuyerStatus

SpecOrders == Init /\ [][NextOrders]_vars

\* allocation and confirmation with a database statement of confirmDelivery throwing
NextFaults ==
    \/ CreateOrder
    \/ ApproveOrder
    \/ CreateDeliveryAssignments
    \/ ConfirmDeliveryPlain
    \/ ConfirmDeliveryScoringFails
    \/ ConfirmDeliveryOrderUpdateFails

SpecFaults == Init /\ [][NextFaults]_vars

\* two createDeliveryAssignments requests served at the same time, each in two steps
NextRace ==
    \/ CreateOrder
    \/ ApproveOrder
    \/ AllocateRead
    \/ AllocateWrite

SpecRace == Init /\ [][NextRace]_vars

\* the weekly submissions of the farmers over two weeks
NextAvailability ==
    \/ SubmitAvailability
    \/ NextDay

SpecAvailability == Init /\ [][NextAvailability]_vars

\* the deliveries and submissions of one farmer over two orders and three days
NextScoring ==
    \/ CreateOrders
    \/ ApproveOrder
    \/ AllocateToOne
    \/ ConfirmDeliveryGraded
    \/ SubmitAvailabilityOne
    \/ GetPerformance
    \/ Tomorrow

SpecScoring == Init /\ [][NextScoring]_vars

\* approveOrder and rejectOrder requests served at the same time, each in two steps
NextDecisionRace ==
    \/ CreateOrder
    \/ ApproveRead
    \/ ApproveWrite
    \/ RejectRead
    \/ RejectWrite

SpecDecisionRace == Init /\ [][NextDecisionRace]_vars

\* confirmDelivery requests served at the same time, each in four steps; every request
\* that was read completes
NextConfirmRace ==
    \/ CreateOrder
    \/ ApproveOrder
    \/ CreateDeliveryAssignments
    \/ ConfirmRead
    \/ ConfirmUpdate
    \/ ConfirmRollUp
    \/ ConfirmScore

SpecConfirmRace ==
    /\ Init
    /\ [][NextConfirmRace]_vars
    /\ WF_vars(ConfirmUpdate)
    /\ WF_vars(ConfirmRollUp)
    /\ WF_vars(ConfirmScore)

TypeOK ==
    /\ DOMAIN orders = 1 .. (nextOrderId - 1)
    /\ DOMAIN orders \subseteq OrderIds
    /\ DOMAIN assignments \subseteq 1 .. (nextAssignmentId - 1)
    /\ DOMAIN assignments \subseteq AssignmentIds
    /\ \A o \in DOMAIN orders :
          orders[o].status \in {"PENDING", "ALLOCATION", "DELIVERED", "REJECTED"}
    /\ \A a \in DOMAIN assignments :
          /\ assignments[a].orderId \in DOMAIN orders
          /\ assignments[a].status \in {"PENDING", "DELIVERED", "FAILED"}

\* POST /admin/payments
RecordPayment ==
    \E admin \in AdminIds, f \in FarmerIdInputs, a \in PaymentAssignmentInputs,
       amountPaid \in AmountPaidInputs :
        LET r == recordPayment(admin, f, a, amountPaid)
        IN  /\ Len(payments) < MaxPayments
            /\ r.code = "OK"
            /\ payments' = r.payments
            /\ last' = "recordPayment"
            /\ UNCHANGED <<orders, assignments, farmerStatus, buyerStatus, addressOwner,
                           isDefault, auth, faults, scores, nextOrderId,
                           nextAssignmentId, now, requests, batches, decisions>>

\* deliveries and the payments recorded for them
NextPayments ==
    \/ CreateOrder
    \/ ApproveOrder
    \/ CreateDeliveryAssignments
    \/ ConfirmDeliveryBare
    \/ RecordPayment

SpecPayments == Init /\ [][NextPayments]_vars

\* POST /auth/forgot-password for a known user
GeneratePasswordResetToken ==
    \E emailOrPhone \in EmailOrPhoneInputs :
        LET r == generatePasswordResetToken(emailOrPhone)
        IN  /\ nextToken <= MaxTokens
            /\ r.resetTokens # resetTokens
            /\ resetTokens' = r.resetTokens
            /\ nextToken' = r.nextToken
            /\ last' = "generatePasswordResetToken"
            /\ UNCHANGED <<orders, assignments, farmerStatus, buyerStatus, addressOwner,
                           isDefault, payments, passwordHash, hour, resets, faults,
                           scores, nextOrderId, nextAssignmentId, now, requests,
                           batches, decisions>>

\* POST /auth/reset-password, up to the await of hashPassword
ResetRead ==
    \E p \in Processes, token \in TokenIds, newPassword \in NewPasswordInputs :
        LET r == resetPasswordCheck(token)
        IN  /\ requests[p] = NONE
            /\ r.code = "OK"
            /\ requests' = [requests EXCEPT ![p] =
                               Some([op |-> "resetPassword", token |-> token,
                                     tokenData |-> Val(r.tokenData),
                                     newPassword |-> newPassword])]
            /\ last' = "resetPassword read"
            /\ UNCHANGED <<orders, assignments, farmerStatus, buyerStatus, addressOwner,
                           isDefault, payments, auth, faults, scores, nextOrderId,
                           nextAssignmentId, now, batches, decisions>>

\* the same request after the await: the password is written, the token deleted and
\* the call returns
ResetWrite ==
    \E p \in Processes :
        /\ requests[p] # NONE
        /\ Val(requests[p]).op = "resetPassword"
        /\ LET request == Val(requests[p])
               r == resetPasswordWrite(request)
           IN  /\ passwordHash' = r.passwordHash
               /\ resetTokens' = r.resetTokens
               /\ resets' = [resets EXCEPT ![request.token] = @ + 1]
        /\ requests' = [requests EXCEPT ![p] = NONE]
        /\ last' = "resetPassword"
        /\ UNCHANGED <<orders, assignments, farmerStatus, buyerStatus, addressOwner,
                       isDefault, payments, hour, nextToken, faults, scores,
                       nextOrderId, nextAssignmentId, now, batches, decisions>>

\* POST /auth/reset-password with an expired token: TOKEN_EXPIRED, the entry is deleted
ResetExpired ==
    \E token \in TokenIds :
        LET r == resetPasswordCheck(token)
        IN  /\ r.code = "TOKEN_EXPIRED"
            /\ resetTokens' = r.resetTokens
            /\ last' = "resetPassword failed"
            /\ UNCHANGED <<orders, assignments, farmerStatus, buyerStatus, addressOwner,
                           isDefault, payments, passwordHash, hour, nextToken, resets,
                           faults, scores, nextOrderId, nextAssignmentId, now,
                           requests, batches, decisions>>

\* GET /auth/verify-reset-token with an expired token: false, the entry is deleted
VerifyResetToken ==
    \E token \in TokenIds :
        LET r == verifyResetToken(token)
        IN  /\ r.resetTokens # resetTokens
            /\ resetTokens' = r.resetTokens
            /\ last' = "verifyResetToken"
            /\ UNCHANGED <<orders, assignments, farmerStatus, buyerStatus, addressOwner,
                           isDefault, payments, passwordHash, hour, nextToken, resets,
                           faults, scores, nextOrderId, nextAssignmentId, now,
                           requests, batches, decisions>>

\* the hourly setInterval callback
Cleanup ==
    /\ cleanup # resetTokens
    /\ resetTokens' = cleanup
    /\ last' = "cleanup"
    /\ UNCHANGED <<orders, assignments, farmerStatus, buyerStatus, addressOwner,
                   isDefault, payments, passwordHash, hour, nextToken, resets, faults,
                   scores, nextOrderId, nextAssignmentId, now, requests, batches,
                   decisions>>

\* an hour passes
NextHour ==
    /\ hour < MaxHour
    /\ hour' = hour + 1
    /\ last' = "hour"
    /\ UNCHANGED <<orders, assignments, farmerStatus, buyerStatus, addressOwner,
                   isDefault, payments, resetTokens, passwordHash, nextToken, resets,
                   faults, scores, nextOrderId, nextAssignmentId, now, requests,
                   batches, decisions>>

\* password resets, with the resetPassword requests interleaved at their await
NextResetRace ==
    \/ GeneratePasswordResetToken
    \/ ResetRead
    \/ ResetWrite
    \/ ResetExpired
    \/ VerifyResetToken
    \/ Cleanup
    \/ NextHour

SpecResetRace == Init /\ [][NextResetRace]_vars

\* the writes of a call of the buyer service that returned normally
CommitAddress(op, r) ==
    /\ r.code = "OK"
    /\ addressOwner' = r.addressOwner
    /\ isDefault' = r.isDefault
    /\ buyerStatus' = r.buyerStatus
    /\ last' = op
    /\ UNCHANGED <<orders, assignments, farmerStatus, payments, auth, faults, scores,
                   nextOrderId, nextAssignmentId, now, requests, batches, decisions>>

\* POST /auth/register/buyer
RegisterBuyer ==
    \E b \in NewBuyerIds, deliveryAddresses \in DeliveryAddressesInputs :
        /\ Cardinality(DOMAIN addressOwner) + Len(deliveryAddresses) <= MaxAddresses
        /\ CommitAddress("registerBuyer", registerBuyer(b, deliveryAddresses))

\* POST /buyers/delivery-addresses
CreateDeliveryAddress ==
    \E b \in DOMAIN buyerStatus, dataIsDefault \in IsDefaultInputs :
        /\ Cardinality(DOMAIN addressOwner) < MaxAddresses
        /\ CommitAddress("createDeliveryAddress", createDeliveryAddress(b, dataIsDefault))

\* PUT /buyers/delivery-addresses/:id
UpdateDeliveryAddress ==
    \E b \in DOMAIN buyerStatus, a \in AddressIds \cup NewAddressIds,
       dataIsDefault \in IsDefaultInputs :
        /\ updateDeliveryAddress(a, b, dataIsDefault).isDefault # isDefault
        /\ CommitAddress("updateDeliveryAddress",
                         updateDeliveryAddress(a, b, dataIsDefault))

\* DELETE /buyers/delivery-addresses/:id
DeleteDeliveryAddress ==
    \E b \in DOMAIN buyerStatus, a \in AddressIds \cup NewAddressIds :
        /\ a \in DOMAIN addressOwner
        /\ CommitAddress("deleteDeliveryAddress", deleteDeliveryAddress(a, b))

\* the buyers' address books, and the orders that keep an address from being deleted
NextAddresses ==
    \/ RegisterBuyer
    \/ CreateDeliveryAddress
    \/ UpdateDeliveryAddress
    \/ DeleteDeliveryAddress
    \/ CreateOrder

SpecAddresses == Init /\ [][NextAddresses]_vars

\* ------------------------------------------------------------------- claims
Confirmed(a) == assignments[a].status \in {"DELIVERED", "FAILED"}
OrderTotal(o) == TotalAssigned(assignments, AssignmentsOf(assignments, o))

\* C1 (conservation): in every reachable state, for every order, the sum of
\* assignedQuantity over the order's assignments is at most order.quantity.
Conservation == \A o \in DOMAIN orders : OrderTotal(o) <= orders[o].quantity

\* C1 witness: a batch of two was created, one row deleted and the other one raised
\* by updateAssignment until the order is allocated in full.
ConservationWitness ==
    /\ last = "updateAssignment"
    /\ nextAssignmentId >= 3
    /\ \E o \in DOMAIN orders :
          /\ Cardinality(AssignmentsOf(assignments, o)) = 1
          /\ OrderTotal(o) = orders[o].quantity
          /\ orders[o].quantity > 1

\* C2 (roll-up completeness), as claimed: an order is DELIVERED if and only if it has
\* at least one assignment and none of its assignments is PENDING.
RollUpCompleteness ==
    \A o \in DOMAIN orders :
        orders[o].status = "DELIVERED" <=>
            /\ AssignmentsOf(assignments, o) # {}
            /\ \A a \in AssignmentsOf(assignments, o) : Confirmed(a)

\* C3 (immutability after confirmation): on an assignment that is DELIVERED or FAILED,
\* updateAssignment (whatever the quantity) and deleteAssignment fail with
\* INVALID_ASSIGNMENT_STATUS and leave both tables as they were.
ImmutableAfterConfirmation ==
    \A a \in DOMAIN assignments :
        Confirmed(a) =>
            /\ \A q \in QuantityInputs :
                  /\ updateAssignment(a, q).code = "INVALID_ASSIGNMENT_STATUS"
                  /\ updateAssignment(a, q).assignments = assignments
                  /\ updateAssignment(a, q).orders = orders
            /\ deleteAssignment(a).code = "INVALID_ASSIGNMENT_STATUS"
            /\ deleteAssignment(a).assignments = assignments
            /\ deleteAssignment(a).orders = orders

\* C3 witness: a DELIVERED and a FAILED assignment exist and both calls are refused.
ImmutableAfterConfirmationWitness ==
    \E a, b \in DOMAIN assignments :
        /\ assignments[a].status = "DELIVERED"
        /\ assignments[b].status = "FAILED"
        /\ updateAssignment(a, 1).code = "INVALID_ASSIGNMENT_STATUS"
        /\ deleteAssignment(b).code = "INVALID_ASSIGNMENT_STATUS"

\* C4 (mutated exactly once), as claimed: once an assignment has left PENDING no step
\* removes it or changes its status, quantityDelivered, qualityResult, confirmedBy or
\* confirmedAt.
ConfirmedOnce ==
    [][\A a \in DOMAIN assignments :
          Confirmed(a) =>
              /\ a \in DOMAIN assignments'
              /\ assignments'[a].status = assignments[a].status
              /\ assignments'[a].quantityDelivered = assignments[a].quantityDelivered
              /\ assignments'[a].qualityResult = assignments[a].qualityResult
              /\ assignments'[a].confirmedBy = assignments[a].confirmedBy
              /\ assignments'[a].confirmedAt = assignments[a].confirmedAt]_vars

\* C5 (one-shot allocation), as claimed: on an order that has an assignment every
\* createDeliveryAssignments call fails with ALREADY_ALLOCATED, whatever the rows and
\* the order's status, and creates nothing.
OneShotAlwaysAlreadyAllocated ==
    \A o \in DOMAIN orders :
        AssignmentsOf(assignments, o) # {} =>
            \A rows \in ServiceAllocationInputs :
                /\ createDeliveryAssignments(o, rows, 0).code = "ALREADY_ALLOCATED"
                /\ createDeliveryAssignments(o, rows, 0).assignments = assignments

\* C5, amended: on an order that has an assignment every createDeliveryAssignments
\* call fails and creates nothing, with ALREADY_ALLOCATED while the order's status is
\* ALLOCATION and with INVALID_ORDER_STATUS once it is not (after the roll-up to
\* DELIVERED), whatever the rows.
OneShotAllocation ==
    \A o \in DOMAIN orders :
        AssignmentsOf(assignments, o) # {} =>
            \A rows \in ServiceAllocationInputs :
                /\ createDeliveryAssignments(o, rows, 0).code =
                       IF orders[o].status = "ALLOCATION" THEN "ALREADY_ALLOCATED"
                       ELSE "INVALID_ORDER_STATUS"
                /\ createDeliveryAssignments(o, rows, 0).assignments = assignments
                /\ createDeliveryAssignments(o, rows, 0).orders = orders

\* C5 witness: an order in ALLOCATION with a PENDING and a confirmed assignment, on
\* which a batch that fits the order's quantity is refused.
OneShotAllocationWitness ==
    \E o \in DOMAIN orders :
        /\ orders[o].status = "ALLOCATION"
        /\ \E a, b \in AssignmentsOf(assignments, o) :
              assignments[a].status = "PENDING" /\ Confirmed(b)
        /\ createDeliveryAssignments(
               o, <<[farmerId |-> "f1", assignedQuantity |-> 1]>>, 0).code = "ALREADY_ALLOCATED"

\* C6 (one batch per order), as claimed: at most one createDeliveryAssignments call
\* ever succeeds for an order.
OneBatchEver == \A o \in OrderIds : batches[o] <= 1

\* C6, amended: a createDeliveryAssignments call succeeds for an order only while the
\* order is in ALLOCATION and has no assignment, so a batch is refused as long as a row
\* of an earlier batch exists (a later batch can succeed once they are all deleted).
OneBatchAtATime ==
    [][\A o \in OrderIds :
          batches'[o] # batches[o] =>
              /\ batches'[o] = batches[o] + 1
              /\ o \in DOMAIN orders
              /\ orders[o].status = "ALLOCATION"
              /\ AssignmentsOf(assignments, o) = {}
              /\ AssignmentsOf(assignments', o) # {}]_vars

\* C6 witness: a second batch has succeeded for an order.
OneBatchAtATimeWitness ==
    \E o \in DOMAIN orders :
        /\ batches[o] = 2
        /\ last = "createDeliveryAssignments"
        /\ AssignmentsOf(assignments, o) # {}

\* C7 (no partial writes): every createDeliveryAssignments call that ends in an
\* error, a failure inside the transaction included, leaves both tables as they were,
\* and an updateAssignment refused with OVER_ALLOCATION leaves them as they were.
NoPartialWrites ==
    /\ \A o \in OrderIdInputs, rows \in ServiceAllocationInputs, failAt \in 0 .. MaxRows :
          (failAt <= Len(rows) /\ createDeliveryAssignments(o, rows, failAt).code # "OK") =>
              /\ createDeliveryAssignments(o, rows, failAt).assignments = assignments
              /\ createDeliveryAssignments(o, rows, failAt).orders = orders
    /\ \A a \in DOMAIN assignments, q \in QuantityInputs :
          updateAssignment(a, q).code = "OVER_ALLOCATION" =>
              /\ updateAssignment(a, q).assignments = assignments
              /\ updateAssignment(a, q).orders = orders

\* C7 witness: an order on which a batch of two passes every check and its second
\* create fails inside the transaction.
NoPartialWritesWitness ==
    \E o \in DOMAIN orders, rows \in CreateAllocationInputs :
        /\ Len(rows) = 2
        /\ createDeliveryAssignments(o, rows, 0).code = "OK"
        /\ createDeliveryAssignments(o, rows, 2).code = "TRANSACTION_FAILED"
        /\ nextAssignmentId > 1

\* the four preconditions of allocate, farmer eligibility apart
AllocatePreconditions(o, rows) ==
    /\ o \in DOMAIN orders
    /\ orders[o].status = "ALLOCATION"
    /\ AssignmentsOf(assignments, o) = {}
    /\ SumSeq([i \in DOMAIN rows |-> rows[i].assignedQuantity]) > 0
    /\ SumSeq([i \in DOMAIN rows |-> rows[i].assignedQuantity]) <= orders[o].quantity

Eligible(f) == f \in DOMAIN farmerStatus /\ farmerStatus[f] \in {"ACTIVE", "PROBATIONARY"}

\* C8 (allocate succeeds), as claimed: when the preconditions hold and every referenced
\* farmer is eligible, the call succeeds for every list (a farmer may appear in several
\* rows), creates one PENDING assignment per row with the order's deliveryDate and
\* deliveryAddressId, keeps the other rows, and returns totalAssigned and
\* remainingQuantity = order.quantity - totalAssigned.
AllocateSucceeds ==
    \A o \in OrderIdInputs, rows \in ServiceAllocationInputs :
        (AllocatePreconditions(o, rows) /\ \A i \in DOMAIN rows : Eligible(rows[i].farmerId)) =>
            LET r == createDeliveryAssignments(o, rows, 0)
                total == SumSeq([i \in DOMAIN rows |-> rows[i].assignedQuantity])
                new == DOMAIN r.assignments \ DOMAIN assignments
            IN /\ r.code = "OK"
               /\ new = nextAssignmentId .. (nextAssignmentId + Len(rows) - 1)
               /\ \A a \in DOMAIN assignments : r.assignments[a] = assignments[a]
               /\ \A i \in DOMAIN rows :
                     LET row == r.assignments[nextAssignmentId + i - 1]
                     IN /\ row.orderId = o
                        /\ row.farmerId = rows[i].farmerId
                        /\ row.assignedQuantity = rows[i].assignedQuantity
                        /\ row.status = "PENDING"
                        /\ row.deliveryDate = orders[o].deliveryDate
                        /\ row.deliveryAddressId = orders[o].deliveryAddressId
               /\ Val(r.ret).totalAssigned = total
               /\ Val(r.ret).remainingQuantity = orders[o].quantity - total

\* C9 (farmer eligibility), as claimed: a call that passes the order, already-allocated
\* and quantity checks fails with FARMER_NOT_FOUND if and only if a referenced farmer
\* does not exist or is neither ACTIVE nor PROBATIONARY.
FarmerNotFoundIffIneligible ==
    \A o \in OrderIdInputs, rows \in ServiceAllocationInputs :
        AllocatePreconditions(o, rows) =>
            (createDeliveryAssignments(o, rows, 0).code = "FARMER_NOT_FOUND"
                <=> \E i \in DOMAIN rows : ~Eligible(rows[i].farmerId))

\* C10 (delivered quantity in range), as claimed: every assignment with a non-null
\* quantityDelivered has 0 <= quantityDelivered <= assignedQuantity.
QuantityDeliveredInRange ==
    \A a \in DOMAIN assignments :
        assignments[a].quantityDelivered # NONE =>
            /\ 0 <= Val(assignments[a].quantityDelivered)
            /\ Val(assignments[a].quantityDelivered) <= assignments[a].assignedQuantity

\* C11 (positive quantities): in every reachable state every DeliveryAssignment has
\* assignedQuantity > 0.
PositiveAssignedQuantity ==
    \A a \in DOMAIN assignments : assignments[a].assignedQuantity > 0

\* C11 witness: a row stored by a batch and raised by updateAssignment, in a state where
\* a request body with a zero quantity would pass every check of the service function.
PositiveAssignedQuantityWitness ==
    /\ last = "updateAssignment"
    /\ \E a \in DOMAIN assignments :
          /\ assignments[a].assignedQuantity >= 2
          /\ updateAssignmentHandler(a, 0).code = "VALIDATION_ERROR"
          /\ createAssignmentsHandler(
                 assignments[a].orderId,
                 <<[farmerId |-> "f1", assignedQuantity |-> 0]>>, 0).code = "VALIDATION_ERROR"

\* C12 (confirmation effect), as claimed: a successful confirmDelivery sets the status
\* to DELIVERED when delivered and to FAILED when not; quantityDelivered becomes the
\* given value when delivered with a value, assignedQuantity when delivered without a
\* value, and null when not delivered; confirmedBy is the confirming admin.
ConfirmationEffect ==
    \A a \in DOMAIN assignments, admin \in AdminIds, delivered \in BOOLEAN,
       qd \in QuantityDeliveredInputs, quality \in QualityResultInputs :
        LET r == confirmDelivery(a, admin, delivered, qd, quality, FALSE, 0) IN
        r.code = "OK" =>
            /\ r.assignments[a].status = IF delivered THEN "DELIVERED" ELSE "FAILED"
            /\ r.assignments[a].quantityDelivered =
                   IF delivered /\ qd # NONE THEN qd
                   ELSE IF delivered THEN Some(assignments[a].assignedQuantity)
                   ELSE NONE
            /\ r.assignments[a].confirmedBy = Some(admin)

\* C13 (invalid delivered quantity): on a PENDING assignment, confirmDelivery with
\* delivered = true and a quantityDelivered below 0 or above assignedQuantity fails with
\* INVALID_QUANTITY and leaves the assignment, the order and the farmer's performance
\* records as they were.
InvalidQuantityRefused ==
    \A a \in DOMAIN assignments, admin \in AdminIds, q \in QuantityInputs,
       quality \in QualityResultInputs, orderUpdateFails \in BOOLEAN, scoringFailAt \in 0 .. 3 :
        (assignments[a].status = "PENDING" /\ (q < 0 \/ q > assignments[a].assignedQuantity)) =>
            LET r == confirmDelivery(a, admin, TRUE, Some(q), quality,
                                     orderUpdateFails, scoringFailAt)
            IN /\ r.code = "INVALID_QUANTITY"
               /\ r.assignments = assignments
               /\ r.orders = orders
               /\ r.performance = performance
               /\ r.breakdown = breakdown
               /\ r.history = history

\* C13 witness: a PENDING assignment, in a state with performance records, for which a
\* delivered quantity of assignedQuantity + 1 is refused.
InvalidQuantityRefusedWitness ==
    \E a \in DOMAIN assignments :
        /\ assignments[a].status = "PENDING"
        /\ \E f \in FarmerIds : performance[f] # NONE
        /\ history # <<>>
        /\ confirmDelivery(a, "admin1", TRUE, Some(assignments[a].assignedQuantity + 1),
                           NONE, FALSE, 0).code = "INVALID_QUANTITY"

\* C14 (roll-up frame): a confirmDelivery call after which an assignment of the same
\* order is still PENDING leaves the order's status unchanged, and that status is
\* ALLOCATION.
PendingKeepsOrderStatus ==
    \A a \in DOMAIN assignments, admin \in AdminIds, delivered \in BOOLEAN,
       qd \in QuantityDeliveredInputs, quality \in QualityResultInputs :
        LET r == confirmDelivery(a, admin, delivered, qd, quality, FALSE, 0)
            o == assignments[a].orderId
        IN (/\ r.code = "OK"
            /\ \E b \in AssignmentsOf(r.assignments, o) : r.assignments[b].status = "PENDING")
           => /\ r.orders[o].status = orders[o].status
              /\ r.orders[o].status = "ALLOCATION"

\* C14 witness: after a confirmDelivery an order in ALLOCATION has a confirmed and a
\* PENDING assignment.
PendingKeepsOrderStatusWitness ==
    /\ last = "confirmDelivery"
    /\ \E o \in DOMAIN orders :
          /\ orders[o].status = "ALLOCATION"
          /\ \E a, b \in AssignmentsOf(assignments, o) :
                /\ assignments[a].status = "DELIVERED"
                /\ assignments[a].confirmedAt # NONE
                /\ assignments[b].status = "PENDING"

\* C15 (decisions only from PENDING): on an order whose status is not PENDING,
\* approveOrder and rejectOrder fail with INVALID_ORDER_STATUS and leave the order as it
\* was, and at most one approve-or-reject call has ever succeeded for an order.
DecideOnlyPending ==
    \A o \in DOMAIN orders :
        /\ decisions[o] <= 1
        /\ orders[o].status = "PENDING" => decisions[o] = 0
        /\ orders[o].status # "PENDING" =>
              \A admin \in AdminIds :
                  /\ \A adminNotes \in AdminNotesInputs :
                        /\ approveOrder(o, admin, adminNotes).code = "INVALID_ORDER_STATUS"
                        /\ approveOrder(o, admin, adminNotes).orders = orders
                  /\ \A reason \in ReasonInputs :
                        /\ rejectOrder(o, admin, reason).code = "INVALID_ORDER_STATUS"
                        /\ rejectOrder(o, admin, reason).orders = orders

\* C15 witness: an approved order that has rolled up to DELIVERED, on which a second
\* approval and a rejection are refused.
DecideOnlyPendingWitness ==
    \E o \in DOMAIN orders :
        /\ orders[o].status = "DELIVERED"
        /\ decisions[o] = 1
        /\ approveOrder(o, "admin1", Some("call first")).code = "INVALID_ORDER_STATUS"
        /\ rejectOrder(o, "admin1", "out of stock").code = "INVALID_ORDER_STATUS"

\* C16 (statuses move forward): an order is created PENDING, is never removed, and the
\* only changes of its status are PENDING -> ALLOCATION, PENDING -> REJECTED and
\* ALLOCATION -> DELIVERED.
StatusForward ==
    [][/\ \A o \in DOMAIN orders :
             /\ o \in DOMAIN orders'
             /\ \/ orders'[o].status = orders[o].status
                \/ <<orders[o].status, orders'[o].status>> \in
                       {<<"PENDING", "ALLOCATION">>, <<"PENDING", "REJECTED">>,
                        <<"ALLOCATION", "DELIVERED">>}
       /\ \A o \in DOMAIN orders' \ DOMAIN orders : orders'[o].status = "PENDING"]_vars

\* C16 witness: an order that went from PENDING through ALLOCATION to DELIVERED and
\* whose assignment was then confirmed once more.
StatusForwardWitness ==
    /\ last = "confirmDelivery"
    /\ Len(history) = 2
    /\ \E o \in DOMAIN orders :
          /\ orders[o].status = "DELIVERED"
          /\ orders[o].approvedAt # NONE
          /\ Cardinality(AssignmentsOf(assignments, o)) = 1

\* C17 (rejection reason), as claimed: rejectOrder on a PENDING order with an empty or
\* whitespace-only reason fails and leaves the order as it was, and every REJECTED order
\* has a non-empty rejectionReason.
RejectedHasReason ==
    \A o \in DOMAIN orders :
        /\ orders[o].status = "PENDING" =>
              \A admin \in AdminIds, reason \in ReasonInputs :
                  Trim(reason) = "" =>
                      /\ rejectOrder(o, admin, reason).code # "OK"
                      /\ rejectOrder(o, admin, reason).orders = orders
        /\ orders[o].status = "REJECTED" =>
              /\ orders[o].rejectionReason # NONE
              /\ Val(orders[o].rejectionReason) # ""

\* C18 (suspended buyer): approveOrder on a PENDING order of a SUSPENDED buyer fails
\* with BUYER_SUSPENDED and leaves the order PENDING with approvedAt and approvedBy unset.
SuspendedBuyerRefused ==
    \A o \in DOMAIN orders :
        (orders[o].status = "PENDING" /\ buyerStatus[orders[o].buyerId] = "SUSPENDED") =>
            \A admin \in AdminIds, adminNotes \in AdminNotesInputs :
                LET r == approveOrder(o, admin, adminNotes)
                IN /\ r.code = "BUYER_SUSPENDED"
                   /\ r.orders = orders
                   /\ r.orders[o].status = "PENDING"
                   /\ r.orders[o].approvedAt = NONE
                   /\ r.orders[o].approvedBy = NONE

\* C18 witness: a buyer was suspended after placing an order that is still PENDING.
SuspendedBuyerRefusedWitness ==
    /\ last = "updateBuyerStatus"
    /\ \E o \in DOMAIN orders :
          /\ orders[o].status = "PENDING"
          /\ buyerStatus[orders[o].buyerId] = "SUSPENDED"
          /\ approveOrder(o, "admin1", NONE).code = "BUYER_SUSPENDED"

\* C19 (confirmation is authoritative): when updatePerformanceScore throws, at any of
\* its steps, confirmDelivery returns as it does when scoring succeeds, with the same
\* assignment update and the same order roll-up.
ConfirmationAuthoritative ==
    \A a \in DOMAIN assignments, admin \in AdminIds, delivered \in BOOLEAN,
       qd \in PlainQuantityInputs, qr \in PlainQualityInputs, failAt \in 1 .. 3 :
        LET ok == confirmDelivery(a, admin, delivered, qd, qr, FALSE, 0)
            r == confirmDelivery(a, admin, delivered, qd, qr, FALSE, failAt)
        IN ok.code = "OK" =>
              /\ r.code = "OK"
              /\ r.ret = ok.ret
              /\ r.assignments = ok.assignments
              /\ r.orders = ok.orders
              /\ r.assignments[a].status = IF delivered THEN "DELIVERED" ELSE "FAILED"

\* C19 witness: a confirmation whose scoring threw before its first write is committed:
\* the assignment is confirmed and the order rolled up, and the farmer has no score.
ConfirmationAuthoritativeWitness ==
    /\ last = "confirmDelivery"
    /\ faults = 1
    /\ \E a \in DOMAIN assignments :
          /\ assignments[a].status = "DELIVERED"
          /\ assignments[a].quantityDelivered # NONE
          /\ performance[assignments[a].farmerId] = NONE
          /\ orders[assignments[a].orderId].status = "DELIVERED"

\* C20 (atomic confirmation), as claimed: a step that persists the confirmation of an
\* assignment, after which no assignment of the order is PENDING, leaves the order
\* DELIVERED, never in ALLOCATION.
ConfirmationAtomic ==
    [][\A a \in DOMAIN assignments :
          (/\ a \in DOMAIN assignments'
           /\ assignments'[a] # assignments[a]
           /\ assignments'[a].status # "PENDING"
           /\ \A b \in AssignmentsOf(assignments', assignments[a].orderId) :
                 assignments'[b].status # "PENDING")
          => orders'[assignments[a].orderId].status = "DELIVERED"]_vars

\* C21 (allocation race): a request that passed its checks commits its batch whatever
\* was written since its reads, so two interleaved requests for one order both commit
\* and the order's total may exceed order.quantity.
NoSerializationGuard ==
    \A p \in Processes :
        requests[p] # NONE =>
            LET request == Val(requests[p])
                r == writeBatch(request)
            IN /\ r.code = "OK"
               /\ Cardinality(AssignmentsOf(r.assignments, request.orderId))
                     = Cardinality(AssignmentsOf(assignments, request.orderId))
                       + Len(request.rows)

\* C21 witness: both requests have committed; the order holds two batches whose total
\* is above order.quantity.
NoSerializationGuardWitness ==
    /\ last = "createDeliveryAssignments"
    /\ \A p \in Processes : requests[p] = NONE
    /\ \E o \in DOMAIN orders :
          /\ orders[o].status = "ALLOCATION"
          /\ batches[o] = 2
          /\ OrderTotal(o) > orders[o].quantity

\* the rows of farmer f for the week of the instant t and the trimmed product
SubmittedFor(f, t, productType) ==
    {r \in availability : /\ r.farmerId = f
                          /\ t - r.weekStartDate \in 0 .. (7 * DayLength - 1)
                          /\ r.productType = Trim(productType)}

\* C29 (availability uniqueness): there is at most one WeeklyAvailability row per
\* farmer, week and product, and a submission for a farmer, week and product that have a
\* row fails with DUPLICATE_SUBMISSION and leaves the table, that row included, as it was.
AvailabilityUnique ==
    /\ \A r1 \in availability, r2 \in availability :
          (/\ r1.farmerId = r2.farmerId
           /\ r1.weekStartDate = r2.weekStartDate
           /\ r1.productType = r2.productType) => r1 = r2
    /\ \A f \in FarmerIds, productType \in ProductTypeInputs :
          SubmittedFor(f, now, productType) # {} =>
              /\ \A q \in QuantityAvailableInputs, delay \in ReadyDelayInputs :
                    LET r == submitWeeklyAvailability(f, Trim(productType), q, now + delay)
                    IN r.code = "DUPLICATE_SUBMISSION" /\ r.availability = availability
              /\ LET r == submitAvailabilityHandler(f, productType, 1, now + 2)
                 IN r.code = "DUPLICATE_SUBMISSION" /\ r.availability = availability

\* C29 witness: a farmer who submitted in time on Monday or Tuesday tries again on
\* Wednesday of the same week, when the row would be stored as late.
AvailabilityUniqueWitness ==
    /\ last = "submitWeeklyAvailability"
    /\ getDay(now) = 3
    /\ \E r \in SubmittedFor("f1", now, " eggs") :
          /\ ~r.isLate
          /\ submitAvailabilityHandler("f1", " eggs", 1, now + 2).code = "DUPLICATE_SUBMISSION"

\* C30 (lateness): a row is stored for the week of the submission instant, with isLate
\* false exactly when that instant is on the Monday or the Tuesday of the row's week,
\* and no step removes or changes a stored row.
LatenessRule ==
    [][/\ availability \subseteq availability'
       /\ \A r \in availability' \ availability :
             /\ now - r.weekStartDate \in 0 .. (7 * DayLength - 1)
             /\ r.isLate = ~(now - r.weekStartDate \in 0 .. (2 * DayLength - 1))]_vars

\* C30 witness: a farmer has a row submitted late in one week and a row submitted in
\* time on the Monday of the next week.
LatenessRuleWitness ==
    /\ last = "submitWeeklyAvailability"
    /\ getDay(now) = 1
    /\ \E r1 \in availability, r2 \in availability :
          /\ r1.farmerId = r2.farmerId
          /\ r1.isLate
          /\ r1.weekStartDate < r2.weekStartDate
          /\ ~r2.isLate
          /\ r2.weekStartDate = getWeekStartDate(now)

\* the tables of the results first and second of two calls are equal
SameStore(first, second) ==
    /\ second.performance = first.performance
    /\ second.breakdown = first.breakdown
    /\ second.history = first.history

\* updatePerformanceScore for farmer f on the tables that the call returning first
\* left, with the DeliveryAssignment table tbl
Recomputed(first, tbl, f) ==
    savePerformance(first, calculatePerformanceScore(tbl, f), f, "recompute", NONE, NONE, 0)

\* the second call succeeds and changes nothing
SecondCallIdle(first, tbl, f) ==
    first.code = "OK" =>
        Recomputed(first, tbl, f).code = "OK" /\ SameStore(first, Recomputed(first, tbl, f))

\* C25 (recompute is idempotent): a second updatePerformanceScore for the farmer, run
\* right after a first one (called on its own or by a confirmation) with assignments
\* and availability rows unchanged, succeeds, leaves score, tier and breakdown as the
\* first call stored them and appends no history row.
RecomputeIdempotent ==
    /\ \A f \in FarmerIds :
          SecondCallIdle(updatePerformanceScore(assignments, f, "recompute", NONE, NONE, 0),
                         assignments, f)
    /\ \A a \in DOMAIN assignments, admin \in AdminIds, delivered \in BOOLEAN,
          qd \in ScoringQuantityInputs, qr \in ScoringQualityInputs :
           SecondCallIdle(confirmDelivery(a, admin, delivered, qd, qr, FALSE, 0),
                          confirmDelivery(a, admin, delivered, qd, qr, FALSE, 0).assignments,
                          assignments[a].farmerId)

\* C25 witness: the confirmation just made changed a farmer's score and appended a
\* history row; running updatePerformanceScore again appends none.  Another farmer
\* has no row stored, so a first call for them appends one.
RecomputeIdempotentWitness ==
    /\ last = "confirmDelivery"
    /\ Len(history) = 1
    /\ \E f \in FarmerIds :
          /\ performance[f] # NONE
          /\ history[1].farmerId = f
          /\ Val(performance[f]).score = history[1].newScore
          /\ updatePerformanceScore(assignments, f, "recompute", NONE, NONE, 0).history
                = history
    /\ \E f \in FarmerIds :
          /\ performance[f] = NONE
          /\ updatePerformanceScore(assignments, f, "recompute", NONE, NONE, 0).history
                # history

\* the history row of a change of farmer f from the stored row old to new
HistoryRow(f, old, new, reason, deliveryAssignmentId, createdBy) ==
    [farmerId |-> f,
     previousScore |-> IF old = NONE THEN 50 ELSE Val(old).score,
     newScore |-> new.score,
     previousTier |-> IF old = NONE THEN "PROBATIONARY" ELSE Val(old).tier,
     newTier |-> new.tier,
     reason |-> reason,
     deliveryAssignmentId |-> deliveryAssignmentId,
     createdBy |-> createdBy]

\* the call that returned r for farmer f appended the row of its change, if any
LoggedIffChanged(r, f, reason, deliveryAssignmentId, createdBy) ==
    r.code = "OK" =>
        r.history =
            IF performance[f] = NONE \/ performance[f] # r.performance[f]
            THEN Append(history, HistoryRow(f, performance[f], Val(r.performance[f]), reason,
                                            deliveryAssignmentId, createdBy))
            ELSE history

\* C26 (history row iff changed): updatePerformanceScore, called on its own or by a
\* confirmation, appends one history row when the farmer has no stored
\* FarmerPerformance row or the computed score or tier differs from the stored one,
\* and none otherwise; the row carries the stored score and tier (50 and PROBATIONARY
\* when nothing is stored) and the new ones.
HistoryIffChanged ==
    /\ \A f \in FarmerIds :
          LoggedIffChanged(updatePerformanceScore(assignments, f, "recompute", NONE, NONE, 0),
                           f, "recompute", NONE, NONE)
    /\ \A a \in DOMAIN assignments, admin \in AdminIds, delivered \in BOOLEAN,
          qd \in ScoringQuantityInputs, qr \in ScoringQualityInputs :
           LoggedIffChanged(confirmDelivery(a, admin, delivered, qd, qr, FALSE, 0),
                            assignments[a].farmerId, ScoreReason(delivered, qr), Some(a),
                            Some(admin))

\* C26 witness: the first computation for a farmer, made for a read of their
\* performance, was logged with the defaults; their second change of score is logged
\* with the score and tier that were stored before it.
HistoryIffChangedWitness ==
    /\ last = "confirmDelivery"
    /\ Len(history) = 2
    /\ history[1].reason = "Initial performance calculation"
    /\ history[1].previousTier = "PROBATIONARY"
    /\ history[1].farmerId = history[2].farmerId
    /\ history[2].previousScore = history[1].newScore
    /\ history[2].previousTier = "STANDARD"
    /\ history[2].newTier = "PREFERRED"

\* the four component scores all 0
ZeroBreakdown ==
    [onTimeDeliveryScore |-> 0, quantityAccuracyScore |-> 0, qualityScore |-> 0,
     availabilitySubmissionScore |-> 0]

\* the WeeklyAvailability rows of farmer f
AvailabilityOf(f) == {r \in availability : r.farmerId = f}

\* the assignments of farmer f with the given statuses
AssignmentsIn(f, statuses) ==
    {a \in DOMAIN assignments : assignments[a].farmerId = f
                                 /\ assignments[a].status \in statuses}

\* C22 (score floor): for a farmer with no DELIVERED or FAILED assignment and no
\* WeeklyAvailability row, calculatePerformanceScore returns score 50, tier STANDARD
\* and the four breakdown components 0.
ScoreFloor ==
    \A f \in FarmerIds :
        AssignmentsIn(f, {"DELIVERED", "FAILED"}) = {} /\ AvailabilityOf(f) = {}
            => calculatePerformanceScore(assignments, f)
                  = [score |-> 50, tier |-> "STANDARD", breakdown |-> ZeroBreakdown]

\* C22 witness: farmer f1 has an assignment that is still PENDING and no submission,
\* a day after the start, and scores the floor; f2 has nothing at all and scores it too.
ScoreFloorWitness ==
    /\ now > 0
    /\ AssignmentsIn("f1", {"PENDING"}) # {}
    /\ AssignmentsIn("f1", {"DELIVERED", "FAILED"}) = {}
    /\ AvailabilityOf("f1") = {}
    /\ calculatePerformanceScore(assignments, "f1").score = 50
    /\ calculatePerformanceScore(assignments, "f2").tier = "STANDARD"

\* C23 (tier mapping): for every score in 0..100 the tier is PREFERRED iff score >= 85,
\* STANDARD iff 50 <= score <= 84 and PROBATIONARY iff score < 50, and the stored
\* FarmerPerformance.tier of every farmer is this mapping of the stored score.
TierMapping ==
    /\ \A score \in 0 .. 100 :
          /\ determineTier(score) = "PREFERRED" <=> score >= 85
          /\ determineTier(score) = "STANDARD" <=> (50 <= score /\ score <= 84)
          /\ determineTier(score) = "PROBATIONARY" <=> score < 50
    /\ \A f \in FarmerIds :
          performance[f] # NONE =>
              /\ Val(performance[f]).score \in 0 .. 100
              /\ Val(performance[f]).tier =
                     (IF Val(performance[f]).score >= 85 THEN "PREFERRED"
                      ELSE IF Val(performance[f]).score >= 50 THEN "STANDARD"
                      ELSE "PROBATIONARY")

\* C23 witness: a farmer stored as PREFERRED fell back to the score 50, stored with
\* the tier STANDARD.
TierMappingWitness ==
    /\ performance["f1"] # NONE
    /\ Val(performance["f1"]).score = 50
    /\ Val(performance["f1"]).tier = "STANDARD"
    /\ Len(history) = 2
    /\ history[2].previousTier = "PREFERRED"
    /\ history[2].previousScore >= 85

\* C24 (score ranges): the four components and the aggregate score that
\* calculatePerformanceScore computes, and the stored ones, are integers in 0..100.
ScoreRanges ==
    \A f \in FarmerIds :
        LET computed == calculatePerformanceScore(assignments, f) IN
        /\ computed.score \in 0 .. 100
        /\ computed.breakdown \in [DOMAIN ZeroBreakdown -> 0 .. 100]
        /\ performance[f] # NONE => Val(performance[f]).score \in 0 .. 100
        /\ breakdown[f] # NONE => Val(breakdown[f]) \in [DOMAIN ZeroBreakdown -> 0 .. 100]

\* C24 witness: one delivery passed and one passed in part, both on time and complete,
\* with an on-time submission: the weighted total is above 100 and the score is 100.
ScoreRangesWitness ==
    /\ performance["f1"] # NONE /\ breakdown["f1"] # NONE
    /\ Val(performance["f1"]).score = 100
    /\ Val(breakdown["f1"]).onTimeDeliveryScore = 100
    /\ Val(breakdown["f1"]).quantityAccuracyScore = 100
    /\ Val(breakdown["f1"]).qualityScore = 75
    /\ Val(breakdown["f1"]).availabilitySubmissionScore = 100

\* the DeliveryAssignment table without the rows S
Without(S) == [a \in DOMAIN assignments \ S |-> assignments[a]]

\* the DeliveryAssignment table with one more PENDING row for farmer f on order o
WithPending(o, f, q) ==
    [a \in DOMAIN assignments \cup {nextAssignmentId} |->
        IF a = nextAssignmentId THEN NewAssignment(o, [farmerId |-> f, assignedQuantity |-> q])
        ELSE assignments[a]]

\* C27 (PENDING assignments are not scored): calculatePerformanceScore for a farmer
\* is the same when PENDING assignments of that farmer are deleted, updated or created.
PendingNotScored ==
    \A f \in FarmerIds :
        LET score == calculatePerformanceScore(assignments, f) IN
        /\ \A S \in SUBSET AssignmentsIn(f, {"PENDING"}) :
              calculatePerformanceScore(Without(S), f) = score
        /\ \A a \in AssignmentsIn(f, {"PENDING"}), q \in 1 .. MaxQuantity :
              calculatePerformanceScore([assignments EXCEPT ![a].assignedQuantity = q], f)
                = score
        /\ \A o \in DOMAIN orders, q \in 1 .. MaxQuantity :
              calculatePerformanceScore(WithPending(o, f, q), f) = score

\* C27 witness: farmer f1 has a confirmed delivery with a stored score above the floor
\* and a PENDING assignment of another order.
PendingNotScoredWitness ==
    /\ AssignmentsIn("f1", {"DELIVERED"}) # {}
    /\ AssignmentsIn("f1", {"PENDING"}) # {}
    /\ performance["f1"] # NONE
    /\ Val(performance["f1"]).score > 50
    /\ calculatePerformanceScore(assignments, "f1").score = Val(performance["f1"]).score

\* C28 (on-time rule): the on-time component of a farmer is
\* round(100 * onTime / confirmed) over the farmer's confirmed assignments, where a
\* DELIVERED assignment is on time iff confirmedAt - deliveryDate <= 1 day and a FAILED
\* one never is, and 0 when there is no confirmed assignment.
OnTimeRule ==
    \A f \in FarmerIds :
        LET confirmed == AssignmentsIn(f, {"DELIVERED", "FAILED"})
            onTime == {a \in AssignmentsIn(f, {"DELIVERED"}) :
                          Val(assignments[a].confirmedAt) - assignments[a].deliveryDate
                              <= DayLength}
        IN calculatePerformanceScore(assignments, f).breakdown.onTimeDeliveryScore
              = IF confirmed = {} THEN 0
                ELSE Round(100 * Cardinality(onTime), Cardinality(confirmed))

\* the preconditions of createOrder
CreateOrderAllowed(b, q, d, addr) ==
    /\ b \in DOMAIN buyerStatus
    /\ buyerStatus[b] = "ACTIVE"
    /\ addr \in DOMAIN addressOwner
    /\ addressOwner[addr] = b
    /\ q > 0
    /\ d > now

\* the call that returned r created one PENDING order with the data of the request, or
\* it failed with one of the five codes and left the Order table as it was
CreatedOrRefused(r, allowed, b, q, d, addr) ==
    IF allowed
    THEN /\ r.code = "OK"
         /\ DOMAIN r.orders = DOMAIN orders \cup {nextOrderId}
         /\ \A o \in DOMAIN orders : r.orders[o] = orders[o]
         /\ r.orders[nextOrderId].status = "PENDING"
         /\ r.orders[nextOrderId].buyerId = b
         /\ r.orders[nextOrderId].quantity = q
         /\ r.orders[nextOrderId].deliveryDate = d
         /\ r.orders[nextOrderId].deliveryAddressId = addr
    ELSE /\ r.code \in {"BUYER_NOT_FOUND", "BUYER_NOT_ACTIVE", "ADDRESS_NOT_FOUND",
                         "INVALID_QUANTITY", "INVALID_DELIVERY_DATE"}
         /\ r.orders = orders

\* C34 (createOrder preconditions): createOrder creates an order, in status PENDING,
\* exactly when the buyer exists with an ACTIVE account, the address belongs to the
\* buyer, quantity > 0 and deliveryDate is later than now; any other call fails with
\* one of the five codes and creates nothing; every stored order has quantity > 0.
CreateOrderGuarded ==
    /\ \A b \in BuyerIds \cup {"b0"}, q \in QuantityInputs, d \in DeliveryDateInputs,
          addr \in AddressIds \cup {"addr0"} :
           CreatedOrRefused(createOrder(b, q, d, addr), CreateOrderAllowed(b, q, d, addr),
                            b, q, d, addr)
    /\ \A o \in DOMAIN orders : orders[o].quantity > 0

\* C34 witness: an order of buyer b1 is stored, and b1, suspended since, is refused
\* another one with BUYER_NOT_ACTIVE.
CreateOrderGuardedWitness ==
    /\ \E o \in DOMAIN orders : orders[o].buyerId = "b1" /\ orders[o].status = "PENDING"
    /\ buyerStatus["b1"] = "SUSPENDED"
    /\ createOrder("b1", 1, 1, "addr1").code = "BUYER_NOT_ACTIVE"
    /\ createOrder("b2", 1, 0, "addr2").code \in {"BUYER_NOT_ACTIVE", "INVALID_DELIVERY_DATE"}

\* component scores at the ends and in the middle of their range
ComponentInputs == {0, 50, 100}

\* C37 (score never below 50): calculatePerformanceScore returns a score in 50..100
\* for every farmer, and so does the weighting for every combination of component
\* scores; no computed and no stored tier is PROBATIONARY.
ScoreAtLeastBase ==
    /\ \A b \in [DOMAIN ZeroBreakdown -> ComponentInputs] :
          weightedScore(b).score \in 50 .. 100 /\ weightedScore(b).tier # "PROBATIONARY"
    /\ \A f \in FarmerIds :
          /\ calculatePerformanceScore(assignments, f).score \in 50 .. 100
          /\ calculatePerformanceScore(assignments, f).tier # "PROBATIONARY"
          /\ performance[f] # NONE =>
                Val(performance[f]).score \in 50 .. 100
                    /\ Val(performance[f]).tier # "PROBATIONARY"

\* C37 witness: every confirmed delivery of farmer f1 failed and their submission was
\* late; the stored score is 50 and the tier STANDARD.
ScoreAtLeastBaseWitness ==
    /\ AssignmentsIn("f1", {"FAILED"}) # {}
    /\ AssignmentsIn("f1", {"DELIVERED"}) = {}
    /\ \E r \in AvailabilityOf("f1") : r.isLate
    /\ last = "confirmDelivery"
    /\ performance["f1"] = Some([score |-> 50, tier |-> "STANDARD"])
    /\ breakdown["f1"] = Some(ZeroBreakdown)

\* the positions of the history rows of farmer f
HistoryOf(f) == {i \in DOMAIN history : history[i].farmerId = f}

\* row j is the next row of its farmer after row i
NextRowOf(i, j) ==
    /\ i < j
    /\ history[i].farmerId = history[j].farmerId
    /\ \A k \in (i + 1) .. (j - 1) : history[k].farmerId # history[i].farmerId

\* C38 (history chain): with the updatePerformanceScore calls run one at a time, every
\* history row of a farmer carries as previousScore/previousTier the
\* newScore/newTier of the farmer's preceding row, and the newScore/newTier of the
\* farmer's latest row are the stored FarmerPerformance score and tier.  It holds as
\* long as every statement of updatePerformanceScore succeeds; a call whose history
\* create throws after the upsert leaves a stored score that no row records.
HistoryChain ==
    /\ \A i, j \in DOMAIN history :
          NextRowOf(i, j) =>
              /\ history[j].previousScore = history[i].newScore
              /\ history[j].previousTier = history[i].newTier
    /\ \A f \in FarmerIds :
          \A i \in HistoryOf(f) :
              (\A k \in HistoryOf(f) : k <= i) =>
                  performance[f] = Some([score |-> history[i].newScore,
                                         tier |-> history[i].newTier])

\* C39 (the two lateness tests agree): for every instant t, with
\* weekStart = getWeekStartDate(t), isLateSubmission(t, weekStart) is true exactly when
\* isWithinSubmissionWindow(t) is false, so the disjunction that
\* submitWeeklyAvailability stores as isLate equals either test alone.
LatenessTestsAgree ==
    \A t \in {now} \cup (0 .. MaxNow) :
        /\ isLateSubmission(t, getWeekStartDate(t)) = ~isWithinSubmissionWindow(t)
        /\ (~isWithinSubmissionWindow(t) \/ isLateSubmission(t, getWeekStartDate(t)))
              = isLateSubmission(t, getWeekStartDate(t))

\* C39 witness: on a Sunday, whose week started on the Monday six days before, a
\* submission was stored as late for that week; both tests call it late.
LatenessTestsAgreeWitness ==
    /\ last = "submitWeeklyAvailability"
    /\ getDay(now) = 0
    /\ getWeekStartDate(now) = now - 6 * DayLength
    /\ \E r \in availability : r.weekStartDate = getWeekStartDate(now) /\ r.isLate
    /\ isLateSubmission(now, getWeekStartDate(now))
    /\ ~isWithinSubmissionWindow(now)

\* every assignment of order o has left PENDING, and there is at least one
AllConfirmed(o) ==
    /\ AssignmentsOf(assignments, o) # {}
    /\ \A a \in AssignmentsOf(assignments, o) : Confirmed(a)

RejectedStaysRejected ==
    [][\A o \in DOMAIN orders :
          orders[o].status = "REJECTED" => orders'[o].status # "ALLOCATION"]_vars

\* the quantity of the farmer's DELIVERED assignments among the ids 1 .. n
RECURSIVE DeliveredQuantity(_, _)
DeliveredQuantity(farmerId, n) ==
    IF n = 0 THEN 0
    ELSE DeliveredQuantity(farmerId, n - 1)
         + (IF /\ n \in DOMAIN assignments
               /\ assignments[n].farmerId = farmerId
               /\ assignments[n].status = "DELIVERED"
            THEN assignments[n].assignedQuantity ELSE 0)

\* the amounts paid to the farmer in the first n Payment rows
RECURSIVE PaidUpTo(_, _)
PaidUpTo(farmerId, n) ==
    IF n = 0 THEN 0
    ELSE PaidUpTo(farmerId, n - 1)
         + (IF payments[n].farmerId = farmerId THEN payments[n].amountPaid ELSE 0)

\* C31 (outstanding balance): after any sequence of confirmations and payments,
\* getOutstandingBalance returns totalOwed - totalPaid, where totalOwed is the price of
\* the farmer's DELIVERED assignments alone and totalPaid the sum of amountPaid over
\* the farmer's Payment rows, both taken from the tables as they are at the read.
OutstandingBalance ==
    \A f \in FarmerIds :
        LET balance == getOutstandingBalance(f)
        IN  /\ balance.totalOwed = pricePerUnit * DeliveredQuantity(f, MaxAssignments)
            /\ balance.totalPaid = PaidUpTo(f, Len(payments))
            /\ balance.outstandingBalance = balance.totalOwed - balance.totalPaid

\* C31 witness: one farmer has a DELIVERED assignment and a payment that leaves part
\* of the amount owed outstanding; another has a FAILED assignment and is owed nothing.
OutstandingBalanceWitness ==
    \E f, g \in FarmerIds :
        /\ \E a \in DOMAIN assignments :
              assignments[a].farmerId = f /\ assignments[a].status = "DELIVERED"
        /\ paymentsOf(f) # <<>>
        /\ getOutstandingBalance(f).outstandingBalance > 0
        /\ \E a \in DOMAIN assignments :
              assignments[a].farmerId = g /\ assignments[a].status = "FAILED"
        /\ getOutstandingBalance(g).totalOwed = 0

\* C35 (payment status derivation): a recordPayment call that returns appends exactly
\* one Payment row; its amountPaid is positive, its amountOwed is the farmer's
\* outstanding balance before the call, and its paymentStatus is PAID when the
\* payments including this one reach the total owed and PARTIALLY_PAID otherwise,
\* never NOT_PAID.
PaymentStatusDerived ==
    [][payments' # payments =>
          LET row == payments'[Len(payments')]
              totalOwed == pricePerUnit * DeliveredQuantity(row.farmerId, MaxAssignments)
              totalPaid == PaidUpTo(row.farmerId, Len(payments))
          IN  /\ payments' = Append(payments, row)
              /\ row.amountPaid > 0
              /\ row.amountOwed = totalOwed - totalPaid
              /\ row.paymentStatus =
                     (IF totalPaid + row.amountPaid >= totalOwed
                      THEN "PAID" ELSE "PARTIALLY_PAID")]_vars

\* C35 witness: a payment that left a balance was stored as PARTIALLY_PAID, and the
\* payment that settled the balance exactly was stored as PAID.
PaymentStatusDerivedWitness ==
    /\ last = "recordPayment"
    /\ Len(payments) = 2
    /\ payments[1].farmerId = payments[2].farmerId
    /\ payments[1].paymentStatus = "PARTIALLY_PAID"
    /\ payments[2].paymentStatus = "PAID"
    /\ payments[2].amountOwed = payments[2].amountPaid

\* C32 (single-use reset tokens), as claimed: of the resetPassword calls made with one
\* token, interleaved around the password-hash await or not, at most one succeeds.
ResetTokenSingleUse == \A t \in TokenIds : resets[t] <= 1

\* C40 (one default address), as claimed: after any sequence of registerBuyer,
\* createDeliveryAddress, updateDeliveryAddress and deleteDeliveryAddress calls run one
\* at a time, no buyer has two delivery addresses with isDefault = true.
AtMostOneDefault ==
    \A b \in DOMAIN buyerStatus :
        Cardinality(defaultsOf(addressOwner, isDefault, b)) <= 1

====
